---- MODULE Spec2Model ----
(***************************************************************************)
(* A model of git-inner's receive-pack pipeline:                           *)
(*   Transaction::receive_pack        src/src/transaction/receive/mod.rs   *)
(*   process_receive_pack             .../receive/parse_receive_object.rs  *)
(*   RefDelta::apply_delta            src/src/objects/ref_delta.rs         *)
(*   OdbMongoTransaction / OdbMongoObject   src/src/odb/mongo/             *)
(*   MongoRefsManager                 src/src/refs/mongo.rs                *)
(* One push request runs against one repository.  Every await point that  *)
(* another task can observe (a staged put, a blob copied by commit(), a    *)
(* ref operation, a frame sent) is a step of its own.                      *)
(*                                                                         *)
(* Three further specifications share the module:                          *)
(*   SpecOdb     two concurrent ODB transactions on one repository         *)
(*   SpecRefs    MongoRefsManager called with any ref name                 *)
(*   SpecUpload  one upload-pack request: walk, compression, framing       *)
(* Each leaves the variables of the others at their initial values.        *)
(***************************************************************************)
EXTENDS Integers, Sequences, FiniteSets, TLC

(***************************************************************************)
(* Bounds of the model and constants of the program.                       *)
(***************************************************************************)
\* Longest command list of one push.
MaxCmds == 2
\* Most objects in a pack drawn from ObjAlphabet.
MaxObjs == 2
\* Longest ref-delta chain pushed in one pack.
MaxChain == 21
\* `let mut resolved_count = 20;`
MaxRounds == 20
\* Last second of the wall clock.
MaxSecond == 1
\* Most documents of the refs collection.
MaxRefs == 3
\* Longest want list of one fetch.
MaxWants == 2
\* Largest `deepen` of one fetch.
MaxDepth == 2
\* `let concurrency = 8usize;`
concurrency == 8
\* `const MAX_PKT_LINE: usize = 0xfff0;`
MAX_PKT_LINE == 65520
\* `const PACK_HEADER_LEN: usize = 12;`
PACK_HEADER_LEN == 12

(***************************************************************************)
(* Hashes.  A hash is a pair <<tag, n>>; ZeroHash is the all-zero hash.    *)
(***************************************************************************)
ZeroHash == <<"zero", 0>>
LiveBlob == <<"live", 7>>      \* a blob durable in the repository
LiveCommit == <<"live", 2>>    \* a commit durable in the repository
NewBlob == <<"new", 3>>
NewCommit == <<"new", 4>>
PackDelta == <<"new", 5>>      \* result of a ref-delta against NewBlob
LiveDelta == <<"new", 6>>      \* result of a ref-delta against LiveCommit
NewTree == <<"new", 8>>
NewTag == <<"new", 10>>
MissingHash == <<"none", 9>>   \* in no pack and not in the ODB
ChainHash(i) == <<"chain", i>> \* result of the i-th delta of a chain

is_zero(h) == h = ZeroHash

Kinds == {"commit", "tree", "blob", "tag"}

(***************************************************************************)
(* Pack entries.  type_id is the 3-bit type of the object header, hash the *)
(* id of the (reconstructed) object, base the base hash of a ref-delta,    *)
(* delta what apply_git_delta does with the delta bytes once the base is   *)
(* found: "ok" (applies), "err" (returns Err), "panic" (slice out of       *)
(* range).                                                                 *)
(***************************************************************************)
Obj(t, h) == [type_id |-> t, hash |-> h, base |-> ZeroHash, delta |-> "none"]
Delta(b, h, q) == [type_id |-> 7, hash |-> h, base |-> b, delta |-> q]

ObjAlphabet ==
    { Obj(3, NewBlob), Obj(1, NewCommit), Obj(3, LiveBlob),
      Delta(NewBlob, PackDelta, "ok"), Delta(LiveCommit, LiveDelta, "ok"),
      Obj(6, ZeroHash), Obj(5, ZeroHash) }

Injective(s) == \A i, j \in DOMAIN s : s[i] = s[j] => i = j

SeqsUpTo(S, n) == UNION { [1..k -> S] : k \in 0..n }

GeneralPacks == { p \in SeqsUpTo(ObjAlphabet, MaxObjs) : Injective(p) }

ChainRoots == {"pack", "odb", "missing"}
ChainBase(root) ==
    CASE root = "pack" -> NewBlob
      [] root = "odb" -> LiveBlob
      [] OTHER -> MissingHash

\* A chain of n deltas, the i-th against the result of the (i-1)-th, the
\* first against ChainBase(root); delta number bad (0: none) is malformed
\* in the way q names.  The deltas come last-first in the pack.
ChainPack(root, n, bad, q) ==
    LET d(i) == Delta(IF i = 1 THEN ChainBase(root) ELSE ChainHash(i - 1),
                      ChainHash(i), IF i = bad THEN q ELSE "ok")
        ds == [k \in 1..n |-> d(n + 1 - k)]
    IN IF root = "pack" THEN <<Obj(3, NewBlob)>> \o ds ELSE ds

ChainPacks ==
    { ChainPack(r, n, 0, "ok") : r \in ChainRoots, n \in 1..MaxChain }
    \cup { ChainPack(r, n, b, q) :
             r \in {"pack"}, n \in {2, MaxChain - 1}, b \in {1, 2}, q \in {"err", "panic"} }

Packs == GeneralPacks \cup ChainPacks

(***************************************************************************)
(* Commands and capabilities.                                              *)
(***************************************************************************)
\* A ref name is the sequence of its path components.
Main == <<"refs", "heads", "main">>
Dev == <<"refs", "heads", "dev">>
TagV1 == <<"refs", "tags", "v1">>
NoRef == <<>>
default_branch == <<"main">>

Cmd(o, n, r) == [old |-> o, new |-> n, ref_name |-> r]

CmdAlphabet ==
    { Cmd(LiveCommit, NewCommit, Main), Cmd(LiveCommit, ZeroHash, Main),
      Cmd(ZeroHash, NewCommit, Dev), Cmd(LiveCommit, NewCommit, Dev),
      Cmd(ZeroHash, NewCommit, TagV1) }

\* One command per ref name, as git sends them.
CommandLists ==
    { c \in SeqsUpTo(CmdAlphabet, MaxCmds) :
        \A i, j \in DOMAIN c : c[i].ref_name = c[j].ref_name => i = j }

CapSets == SUBSET {"atomic", "side-band-64k"}

\* The packs pushed with a command list: the long chains come with the push
\* that creates refs/heads/dev, every other push brings a general pack.
\* The values of the version field of the pack header.
HeaderVersions == 0..4

PacksFor(cmds, caps) ==
    IF cmds = <<Cmd(ZeroHash, NewCommit, Dev)>> /\ "atomic" \notin caps
    THEN Packs ELSE GeneralPacks

(***************************************************************************)
(* State.                                                                  *)
(***************************************************************************)
VARIABLES
    pc,             \* position of the receive-pack task
    result,         \* what receive_pack returned: "none", "Ok", an error, "panic"
    ref_upload,     \* ReceivePackTransaction.ref_upload
    capabilities,   \* ReceivePackTransaction.capabilities
    pack,           \* the objects the client's packfile holds
    pack_version,   \* the version field of the pack header; -1 before it is read
    pack_size,      \* ReceivePackTransaction.pack_size
    pack_count,     \* objects read so far
    resolved_ofs,   \* offset -> (hash, kind) of every object staged from the pack
    unresolved,     \* offsets of the ref-deltas not applied yet
    resolved_count, \* rounds left
    odb,            \* durable objects per kind, what OdbMongoObject reads
    txn,            \* objects staged by the OdbMongoTransaction, per kind
    refs,           \* the refs collection, in insertion order
    idx,            \* position in ref_upload of the ref loop
    ok,             \* the `ok` flag of the ref loop
    lookup_failed,  \* some ODB lookup of apply_delta returned an error
    progress,       \* side-band channels the "Progress:" frames were sent on (0: none)
    events          \* backend calls made and the other frames sent, in order

vars == <<pc, result, ref_upload, capabilities, pack, pack_version, pack_size, pack_count,
          resolved_ofs, unresolved, resolved_count, odb, txn, refs, idx, ok,
          lookup_failed, progress, events>>

\* Two transactions of OdbMongoObject::begin_transaction on one repository.
VARIABLES
    now,            \* chrono::Utc::now().timestamp(): the wall clock, in seconds
    object_store,   \* the object store: the payload stored under each path
    coll,           \* the committed documents of the commit, tree and tag collections
    sessions        \* per transaction: state, id, and the writes of its Mongo session

odb_vars == <<now, object_store, coll, sessions>>

\* Callers of the MongoRefsManager.
VARIABLES
    ref_call        \* the last call made on the refs manager: operation and ref name

\* One upload-pack request: UploadPackTransaction and the locals of
\* upload_pack_encode.
VARIABLES
    up_pc,          \* position of the upload-pack task
    request,        \* UploadPackTransaction: want, have, depth, include_tag, sideband
    want_i,         \* position in `wants` of upload_pack_encode's loop
    stack,          \* the walk's stack of (hash, depth)
    visited,        \* the walk's visited set, shared by all wants
    objs,           \* the selected objects, in the order the walk pushed them
    index,          \* first object of the current compression batch
    handles,        \* the batch's join handles not awaited yet, in spawn order
    finished,       \* spawned compression tasks that have run to their end
    compressed_list,\* (object, bytes) of every awaited task
    raw,            \* the pack segment built: header, entries, trailer
    offset,         \* bytes of `raw` sent so far
    sent            \* what call_back.send was given, in order

up_vars == <<up_pc, request, want_i, stack, visited, objs, index, handles,
             finished, compressed_list, raw, offset, sent>>

\* One ref advertisement: the Transaction, what it sent to its CallBack and
\* what advertise_refs returned.
VARIABLES
    adv_txn,        \* Transaction: protocol, service, version, and the refs of its repository
    adv_sent,       \* the messages sent to the CallBack, in order
    adv_result      \* what advertise_refs returned: "none", "Ok" or an error

adv_vars == <<adv_txn, adv_sent, adv_result>>

\* One call of RefDelta::apply_git_delta.
VARIABLES
    delta_base,     \* `base`: the bytes of the base object
    delta_data,     \* `delta`: the bytes of the delta
    delta_out       \* what the call did: not run, Ok(bytes), Err(error), or a panic

delta_vars == <<delta_base, delta_data, delta_out>>

\* One call of write_pkt_line.
VARIABLES
    pkt_data,       \* `data`: the string to frame
    pkt_out         \* the buffer returned: its length prefix and what follows it

pkt_vars == <<pkt_data, pkt_out>>

\* One call of Tree::parse.
VARIABLES
    tree_input,         \* the entries encoded in `input`, the payload of a tree object
    tree_hash_version,  \* `hash_version`: the hash version of the repository
    tree_out            \* what Tree::parse returned: not run, Ok(Tree) or Err

tree_vars == <<tree_input, tree_hash_version, tree_out>>

\* The repository store of MongoRepoManager and its callers.
VARIABLES
    repositories,   \* the documents of the `repositories` collection, in insertion order
    requested,      \* per document, the hash_version of the request that created it
    repo_call,      \* the last call: init_repository or repo, and the repository's name
    repo_result     \* what the last call returned

repo_vars == <<repositories, requested, repo_call, repo_result>>

\* One request to the HTTP endpoints.
VARIABLES
    http_req,       \* the request: endpoint, credentials, and the server it reaches
    http_resp       \* the response: its status, and whether a Transaction was run

http_vars == <<http_req, http_resp>>

\* The request body of one push as the transport delivers it, and the loop
\* of Transaction::receive_pack that looks for the pack in it.
VARIABLES
    rx_sent,        \* the bytes the client sent
    rx_stream,      \* `stream`: the chunks not yet taken from the transport
    rx_head,        \* `head`: the bytes collected before the pack
    rx_out          \* what the loop handed on: the commands and the pack stream

rx_vars == <<rx_sent, rx_stream, rx_head, rx_out>>

\* One HTTP request whose response is fed from a CallBack channel: the
\* handler, the task that sends and the loop that fills the response.
VARIABLES
    st_run,         \* the service and how the sending side ends
    st_left,        \* the messages the sending side has yet to send
    st_task,        \* the sending side: running, or what it returned
    st_chan,        \* the messages in the CallBack channel
    st_senders,     \* who holds a Sender of the channel
    st_resp,        \* the handler and its response loop
    st_body         \* the frames that reached the response

st_vars == <<st_run, st_left, st_task, st_chan, st_senders, st_resp, st_body>>

\* Two pushes to one repository, each at the ref loop of
\* process_receive_pack with one command.
VARIABLES
    push_cmd,       \* the command of each push
    push_pc,        \* where each push is
    push_ok         \* whether each push sent 'ok <ref>'

push_vars == <<push_cmd, push_pc, push_ok>>

\* What the request stream holds after the last object of the pack.
VARIABLES
    after_pack      \* the pack's trailer, other bytes of that length, or nothing

trailer_vars == <<after_pack>>

\* The variables of the smaller specifications.
side_vars ==
    <<adv_vars, delta_vars, pkt_vars, tree_vars, repo_vars, http_vars, rx_vars, st_vars, push_vars, trailer_vars>>

\* What the receive-pack steps leave alone.
other_vars == <<odb_vars, ref_call, up_vars, side_vars>>

\* The two transactions.
Txns == {1, 2}
DocKinds == {"commit", "tree", "tag"}
EmptyDocs == [k \in DocKinds |-> {}]

\* `{repo_uid}/{hash}` and `{repo_uid}/txn.{id}/{hash}`.
MainPath(h) == [dir |-> "repo", id |-> 0, name |-> h]
TxnPath(id, h) == [dir |-> "txn", id |-> id, name |-> h]

\* Blob { id, data }: the id of a blob is the hash of its data.
DataOf(h) == <<"data", h[2]>>
Blob(h) == [id |-> h, data |-> DataOf(h)]
\* The object a commit, tree or tag document carries.
Doc(k, h) == [kind |-> k, hash |-> h]

IdleSession ==
    [st |-> "idle", id |-> 0, snap |-> EmptyDocs, docs |-> EmptyDocs,
     puts |-> {}, before |-> {}, moved |-> {}, err |-> ""]

\* The repository of InitOdb, as the object store and the collections hold it.
InitStore == [p \in {MainPath(LiveBlob)} |-> DataOf(LiveBlob)]
InitColl == [EmptyDocs EXCEPT !["commit"] = {Doc("commit", LiveCommit)}]

NoCall == [op |-> "none", name |-> <<>>]

\* Option<u32>
None == [some |-> FALSE, val |-> 0]

\* UploadPackTransaction::new
NewRequest ==
    [version |-> "V1", capabilities |-> {}, want |-> <<>>, have |-> {},
     depth |-> None, include_tag |-> FALSE, sideband |-> FALSE,
     haves |-> <<>>, done |-> FALSE]

UploadIdle ==
    /\ up_pc = "WaitingRequest"
    /\ request = NewRequest
    /\ want_i = 1
    /\ stack = <<>>
    /\ visited = {}
    /\ objs = <<>>
    /\ index = 1
    /\ handles = <<>>
    /\ finished = {}
    /\ compressed_list = <<>>
    /\ raw = <<>>
    /\ offset = 0
    /\ sent = <<>>

OdbIdle ==
    /\ now = 0
    /\ object_store = InitStore
    /\ coll = InitColl
    /\ sessions = [t \in Txns |-> IdleSession]

Ev(op, ref, hash, good, band) ==
    [op |-> op, ref |-> ref, hash |-> hash, ok |-> good, band |-> band]

RefItem(name, value, is_branch, is_tag, is_head) ==
    [name |-> name, value |-> value, is_branch |-> is_branch,
     is_tag |-> is_tag, is_head |-> is_head]

EmptyOdb == [k \in Kinds |-> {}]

\* The repository before the push: one blob, one commit, and the default
\* branch pointing at the commit.
InitOdb == [EmptyOdb EXCEPT !["blob"] = {LiveBlob}, !["commit"] = {LiveCommit}]
InitRefs == <<RefItem(Main, LiveCommit, TRUE, FALSE, TRUE)>>

\* The outcome of a call of a function of byte strings.
Outcome(tag, err, bytes) == [tag |-> tag, err |-> err, bytes |-> bytes]
NotRun == Outcome("none", "", <<>>)
Ok(bytes) == Outcome("Ok", "", bytes)
Error(err) == Outcome("Err", err, <<>>)
Panic == Outcome("panic", "", <<>>)

DeltaIdle ==
    /\ delta_base = <<>>
    /\ delta_data = <<>>
    /\ delta_out = NotRun

\* A string of `len` bytes, all of them `byte`.
Str(len, byte) == [len |-> len, byte |-> byte]
\* A buffer: the characters of its length prefix, then a string.
Buf(prefix, payload) == [prefix |-> prefix, payload |-> payload]
NoBuf == Buf(<<>>, Str(0, 0))

PktIdle ==
    /\ pkt_data = Str(0, 0)
    /\ pkt_out = NoBuf

\* hash_version.hash(bytes): no two byte strings share a hash.
Hash(bytes) == <<"hash", bytes>>
\* Result<Tree, GitInnerError>
TreeResult(tag, id, tree_items) == [tag |-> tag, id |-> id, tree_items |-> tree_items]
NoTree == TreeResult("none", Hash(<<>>), <<>>)

TreeIdle ==
    /\ tree_input = <<>>
    /\ tree_hash_version = "Sha1"
    /\ tree_out = NoTree

\* Result<Repository, GitInnerError>, of which the hash version is kept.
RepoResult(tag, hash_version) == [tag |-> tag, hash_version |-> hash_version]

RepoIdle ==
    /\ repositories = <<>>
    /\ requested = <<>>
    /\ repo_call = [op |-> "none", name |-> ""]
    /\ repo_result = RepoResult("none", "")

\* The request: the endpoint, whether the server has an authenticator, what
\* repository the path names, the Authorization and Git-Protocol headers.
HttpRequest(endpoint, auth, r, credentials, header) ==
    [endpoint |-> endpoint, auth |-> auth, repo |-> r, credentials |-> credentials,
     header |-> header]
HttpResponse(status, transaction) == [status |-> status, transaction |-> transaction]

HttpIdle ==
    /\ http_req = HttpRequest("none", FALSE, "none", "none", "none")
    /\ http_resp = HttpResponse(0, "none")

\* No advertisement was asked for.
NoTransaction == [protocol |-> "none", service |-> "none", version |-> "none", refs |-> <<>>]
AdvertiseIdle ==
    /\ adv_txn = NoTransaction
    /\ adv_sent = <<>>
    /\ adv_result = "none"

\* What receive_pack made of the request body: the commands and the
\* capabilities of parse_receive_request, and the bytes left in the stream
\* for parse_receive_head.
Parsed(tag, commands, caps, bytes) ==
    [tag |-> tag, commands |-> commands, capabilities |-> caps, pack |-> bytes]
NotParsed == Parsed("none", <<>>, <<>>, <<>>)

RxIdle ==
    /\ rx_sent = <<>>
    /\ rx_stream = <<>>
    /\ rx_head = <<>>
    /\ rx_out = NotParsed

\* A request to one of the endpoints, the messages its sending side sends
\* and what that side returns in the end.
Run(service, script, outcome) == [service |-> service, script |-> script, outcome |-> outcome]
NoRun == Run("none", <<>>, "none")

StreamIdle ==
    /\ st_run = NoRun
    /\ st_left = <<>>
    /\ st_task = "none"
    /\ st_chan = <<>>
    /\ st_senders = {}
    /\ st_resp = "none"
    /\ st_body = <<>>

\* The two clients that push at the same time.
Pushers == {"first", "second"}

PushIdle ==
    /\ push_cmd = [p \in Pushers |-> Cmd(ZeroHash, ZeroHash, NoRef)]
    /\ push_pc = [p \in Pushers |-> "none"]
    /\ push_ok = [p \in Pushers |-> FALSE]

\* The end of a pack: the hash of all the preceding pack bytes ("trailer"),
\* as many bytes that are not that hash ("wrong"), or the end of the stream.
AfterPack == {"trailer", "wrong", "nothing"}

TrailerIdle ==
    /\ after_pack = "trailer"

InitCore ==
    /\ pc = "WaitingCommands"
    /\ result = "none"
    /\ ref_upload = <<>>
    /\ capabilities = {}
    /\ pack = <<>>
    /\ pack_version = -1
    /\ pack_size = 0
    /\ pack_count = 0
    /\ resolved_ofs = {}
    /\ unresolved = {}
    /\ resolved_count = MaxRounds
    /\ odb = InitOdb
    /\ txn = EmptyOdb
    /\ refs = InitRefs
    /\ idx = 1
    /\ ok = FALSE
    /\ lookup_failed = FALSE
    /\ progress = {}
    /\ events = <<>>
    /\ OdbIdle
    /\ ref_call = NoCall
    /\ UploadIdle
    /\ AdvertiseIdle
    /\ RepoIdle
    /\ HttpIdle

Init ==
    /\ InitCore
    /\ TrailerIdle
    /\ PushIdle
    /\ StreamIdle
    /\ RxIdle
    /\ DeltaIdle
    /\ PktIdle
    /\ TreeIdle

(***************************************************************************)
(* The ODB as the transaction and as a fresh reader see it.                *)
(***************************************************************************)
\* OdbMongoObject::has_X: the durable store only.
OdbHas(k, h) == h \in odb[k]
\* OdbMongoTransaction::has_X: durable objects and the transaction's own puts.
TxnHas(k, h) == h \in odb[k] \cup txn[k]

HasAny(h) == \E k \in Kinds : OdbHas(k, h)

\* `?` on an error: the task returns; nothing is aborted, nothing is sent.
Fail(err) ==
    /\ pc' = "Failed"
    /\ result' = err

ObjectTypeOf(type_id) ==
    CASE type_id = 1 -> "commit"
      [] type_id = 2 -> "tree"
      [] type_id = 3 -> "blob"
      [] type_id = 4 -> "tag"
      [] type_id = 6 -> "ofs-delta"
      [] type_id = 7 -> "ref-delta"
      [] OTHER -> "invalid"

ParseError(k) ==
    CASE k = "commit" -> "CommitParseError"
      [] k = "tree" -> "TreeParseError"
      [] OTHER -> "TagParseError"

PutError(k) == IF k = "blob" THEN "ObjectStoreError" ELSE "MongodbError"

sidebend == "side-band" \in capabilities \/ "side-band-64k" \in capabilities

(***************************************************************************)
(* Transaction::receive_pack up to parse_receive_request.                  *)
(***************************************************************************)
ReceiveRequest ==
    /\ UNCHANGED other_vars
    /\ pc = "WaitingCommands"
    /\ \/ \E cmds \in CommandLists, caps \in CapSets :
            /\ ref_upload' = cmds
            /\ capabilities' = caps
            /\ pc' = "WaitingPackHeader"
            /\ result' = result
       \/ /\ Fail("MongodbError")       \* begin_transaction failed
          /\ UNCHANGED <<ref_upload, capabilities>>
    /\ UNCHANGED <<pack, pack_version, pack_size, pack_count, resolved_ofs, unresolved,
                   resolved_count, odb, txn, refs, idx, ok, lookup_failed, progress, events>>

(***************************************************************************)
(* Transaction::parse_receive_head: the 12-byte header.                    *)
(***************************************************************************)
\* GitProtoVersion::from_u32
from_u32(n) ==
    CASE n = 0 -> "V0" [] n = 1 -> "V1" [] n = 2 -> "V2" [] OTHER -> "Unknown"

\* The version field of the 12-byte pack header is read into a
\* GitProtoVersion.  The arms V0, V1 and V2 run the same code and the field
\* is not read again, so versions 0 and 1 are followed with packs of at
\* most one object.  With any other version the objects that follow the
\* header are left unread in the stream.
ParseReceiveHead ==
    /\ UNCHANGED other_vars
    /\ pc = "WaitingPackHeader"
    /\ \/ \E v \in HeaderVersions, p \in PacksFor(ref_upload, capabilities) :
            /\ from_u32(v) \in {"V0", "V1", "V2"}
            /\ v = 2 \/ Len(p) <= 1
            /\ pack_version' = v
            /\ pack' = p
            /\ pack_size' = Len(p)
            /\ pc' = IF Len(p) = 0 THEN "ResolvingDeltas" ELSE "StreamingObjects"
            /\ result' = result
       \/ /\ Fail("UnexpectedEof")      \* the stream ended inside the header
          /\ UNCHANGED <<pack, pack_version, pack_size>>
       \/ \E v \in HeaderVersions, p \in PacksFor(ref_upload, capabilities) :
            /\ from_u32(v) = "Unknown"  \* GitProtoVersion::Unknown => dbg!()
            /\ Len(p) <= 1
            /\ pack_version' = v
            /\ pack' = p
            /\ pack_size' = Len(p)
            /\ pc' = "Done"
            /\ result' = "Ok"
    /\ UNCHANGED <<ref_upload, capabilities, pack_count, resolved_ofs, unresolved,
                   resolved_count, odb, txn, refs, idx, ok, lookup_failed, progress, events>>

(***************************************************************************)
(* process_receive_pack, first pass: one object of the pack.               *)
(***************************************************************************)
\* Transaction::process_object_data on a parsed object: txn.put_<kind>.
Stage(k, h) == [txn EXCEPT ![k] = @ \cup {h}]

ReadObject ==
    /\ UNCHANGED other_vars
    /\ pc = "StreamingObjects"
    /\ pack_count < pack_size
    /\ LET e == pack[pack_count + 1]
           k == ObjectTypeOf(e.type_id)
           next == IF pack_count + 1 < pack_size
                   THEN "StreamingObjects" ELSE "ResolvingDeltas"
       IN \/ /\ Fail("UnexpectedEof")   \* ensure_buf / inflate: stream ended
             /\ UNCHANGED <<pack_count, resolved_ofs, unresolved, txn, events>>
          \/ /\ k = "invalid"
             /\ Fail("InvalidData")
             /\ UNCHANGED <<pack_count, resolved_ofs, unresolved, txn, events>>
          \/ /\ k = "ofs-delta"
             /\ Fail("UnsupportedOfsDelta")
             /\ UNCHANGED <<pack_count, resolved_ofs, unresolved, txn, events>>
          \/ /\ k \in Kinds \cup {"ref-delta"}
             /\ Fail("DecompressionError")
             /\ UNCHANGED <<pack_count, resolved_ofs, unresolved, txn, events>>
          \/ /\ k \in Kinds \ {"blob"}
             /\ Fail(ParseError(k))
             /\ UNCHANGED <<pack_count, resolved_ofs, unresolved, txn, events>>
          \/ /\ k \in Kinds
             /\ Fail(PutError(k))
             /\ events' = Append(events, Ev("put", NoRef, e.hash, FALSE, 0))
             /\ UNCHANGED <<pack_count, resolved_ofs, unresolved, txn>>
          \/ /\ k \in Kinds
             /\ txn' = Stage(k, e.hash)
             /\ events' = Append(events, Ev("put", NoRef, e.hash, TRUE, 0))
             /\ resolved_ofs' = resolved_ofs \cup
                    {[ofs |-> pack_count + 1, hash |-> e.hash, kind |-> k]}
             /\ pack_count' = pack_count + 1
             /\ pc' = next
             /\ UNCHANGED <<unresolved, result>>
          \/ /\ k = "ref-delta"
             /\ unresolved' = unresolved \cup {pack_count + 1}
             /\ pack_count' = pack_count + 1
             /\ pc' = next
             /\ UNCHANGED <<resolved_ofs, txn, events, result>>
    /\ UNCHANGED <<ref_upload, capabilities, pack, pack_version, pack_size, resolved_count,
                   odb, refs, idx, ok, lookup_failed, progress>>

(***************************************************************************)
(* process_receive_pack, the ref-delta resolution loop.                    *)
(***************************************************************************)
ResolvedHashes(R) == { r.hash : r \in R }

\* Objects a has_blob/has_commit/has_tree/has_tag probe of the transaction
\* finds, given its staged objects T.
TxnVisible(T) == UNION { odb[k] \cup T[k] : k \in Kinds }

\* RefDelta::apply_delta's search for the base: resolved_ofs by hash first,
\* then the transaction as blob, commit, tree, tag.  The kind found, or
\* "MissingBaseObject".
apply_delta(base_hash, R, T) ==
    IF \E r \in R : r.hash = base_hash
    THEN (CHOOSE r \in R : r.hash = base_hash).kind
    ELSE IF base_hash \in odb["blob"] \cup T["blob"] THEN "blob"
    ELSE IF base_hash \in odb["commit"] \cup T["commit"] THEN "commit"
    ELSE IF base_hash \in odb["tree"] \cup T["tree"] THEN "tree"
    ELSE IF base_hash \in odb["tag"] \cup T["tag"] THEN "tag"
    ELSE "MissingBaseObject"

\* The deltas of U that apply right now.
Ready(U, R, T) ==
    { o \in U : pack[o].delta = "ok" /\ apply_delta(pack[o].base, R, T) \in Kinds }

\* Stage every delta of S, each once its base is there: the state of
\* <<resolved_ofs, txn, events>> after the loop body ran for them.
RECURSIVE ApplyAll(_, _, _, _)
ApplyAll(S, R, T, E) ==
    LET rdy == Ready(S, R, T)
    IN IF rdy = {} THEN <<R, T, E>>
       ELSE
         LET o == CHOOSE x \in rdy : \A y \in rdy : x >= y
             k == apply_delta(pack[o].base, R, T)
         IN ApplyAll(S \ {o},
                     R \cup {[ofs |-> o, hash |-> pack[o].hash, kind |-> k]},
                     [T EXCEPT ![k] = @ \cup {pack[o].hash}],
                     Append(E, Ev("put", NoRef, pack[o].hash, TRUE, 0)))

\* The hashes apply_delta finds a base under.
Avail(R, T) == ResolvedHashes(R) \cup TxnVisible(T)

\* The sets of deltas one pass over `unresolved` can resolve, by the order
\* the map is iterated in: a delta is resolved when its base is there the
\* moment it is visited, so any set closed under "base already resolved".
\* Extend(S, U, A): S and one more delta whose base S or A holds.
Extend(S, U, A) ==
    { S \cup {o} : o \in { x \in U \ S :
                             /\ pack[x].delta = "ok"
                             /\ pack[x].base \in A \cup { pack[y].hash : y \in S } } }

RECURSIVE RoundSets(_, _, _, _)
RoundSets(Seen, New, U, A) ==
    IF New = {} THEN Seen
    ELSE RoundSets(Seen \cup New,
                   UNION { Extend(S, U, A) : S \in New } \ (Seen \cup New), U, A)

\* Deltas a pass cannot miss: the base is in resolved_ofs when the pass starts.
Required(U, R) ==
    { o \in U : pack[o].delta = "ok" /\ pack[o].base \in ResolvedHashes(R) }

\* Deltas whose apply_delta panics whatever the order.
MustPanic(U, R) ==
    { o \in U : pack[o].delta = "panic" /\ pack[o].base \in ResolvedHashes(R) }

\* Deltas left behind although their base is durable: an ODB probe failed.
LookupMissed(U, S, R) ==
    { o \in U \ S : /\ pack[o].delta \in {"ok", "panic"}
                    /\ pack[o].base \notin ResolvedHashes(R)
                    /\ HasAny(pack[o].base) }

\* A loop without the round budget.
LoopLeft_Never(rc) == FALSE

\* `if resolved_count == 0 { break; }` at the end of a round.
LoopLeft(rc) == rc = 0

\* One round that runs to its end.
RoundCompletes ==
    /\ MustPanic(unresolved, resolved_ofs) = {}
    /\ \E S \in RoundSets({}, {Required(unresolved, resolved_ofs)},
                          unresolved, Avail(resolved_ofs, txn)) :
          LET after == ApplyAll(S, resolved_ofs, txn, events)
          IN /\ resolved_count' = resolved_count - 1
             /\ lookup_failed' =
                    (lookup_failed \/ LookupMissed(unresolved, S, resolved_ofs) # {})
             /\ resolved_ofs' = after[1]
             /\ txn' = after[2]
             /\ IF S = {}
                THEN /\ Fail("MissingBaseObject")
                     /\ UNCHANGED <<unresolved, events, progress>>
                ELSE /\ unresolved' = unresolved \ S
                     /\ events' = after[3]
                     /\ progress' = progress \cup {IF sidebend THEN 2 ELSE 0}
                     /\ pc' = IF LoopLeft(resolved_count - 1)
                              THEN "Resolved" ELSE "ResolvingDeltas"
                     /\ result' = result

\* One round cut short at delta x: staging its object fails, or applying it
\* panics.
RoundAborts ==
    \E S \in RoundSets({}, {{}}, unresolved, Avail(resolved_ofs, txn)) :
      \E x \in { y \in unresolved \ S :
                   /\ pack[y].delta \in {"ok", "panic"}
                   /\ pack[y].base \in Avail(resolved_ofs, txn)
                                        \cup { pack[z].hash : z \in S } } :
        LET after == ApplyAll(S, resolved_ofs, txn, events)
            k == apply_delta(pack[x].base, after[1], after[2])
        IN /\ resolved_count' = resolved_count - 1
           /\ resolved_ofs' = after[1]
           /\ txn' = after[2]
           /\ UNCHANGED <<unresolved, lookup_failed, progress>>
           /\ \/ /\ pack[x].delta = "ok"
                 /\ k # "blob"
                 /\ Fail(ParseError(k))
                 /\ events' = after[3]
              \/ /\ pack[x].delta = "ok"
                 /\ Fail(PutError(k))
                 /\ events' = Append(after[3], Ev("put", NoRef, pack[x].hash, FALSE, 0))
              \/ /\ pack[x].delta = "panic"
                 /\ pc' = "Panicked"
                 /\ result' = "panic"
                 /\ events' = after[3]

ResolveRound ==
    /\ UNCHANGED other_vars
    /\ pc = "ResolvingDeltas"
    /\ unresolved # {}
    /\ (RoundAborts \/ RoundCompletes)
    /\ UNCHANGED <<ref_upload, capabilities, pack, pack_version, pack_size, pack_count,
                   odb, refs, idx, ok>>

\* The loop is left (nothing unresolved, or no round left): MissingBaseObject
\* or "unpack ok".
UnpackDone ==
    /\ UNCHANGED other_vars
    /\ \/ pc = "Resolved"
       \/ pc = "ResolvingDeltas" /\ unresolved = {}
    /\ resolved_count' = IF pc = "Resolved" THEN resolved_count ELSE resolved_count - 1
    /\ IF unresolved # {}
       THEN /\ Fail("MissingBaseObject")
            /\ UNCHANGED events
       ELSE /\ events' = Append(events, Ev("send_unpack_ok", NoRef, ZeroHash, TRUE, 1))
            /\ pc' = "CommittingOdb"
            /\ result' = result
    /\ UNCHANGED <<ref_upload, capabilities, pack, pack_version, pack_size, pack_count,
                   resolved_ofs, unresolved, odb, txn, refs, idx, ok, lookup_failed,
                   progress>>

(***************************************************************************)
(* OdbMongoTransaction::commit: every staged blob is copied from the       *)
(* transaction's directory to the repository's and deleted there, one      *)
(* after the other; then the Mongo session is committed.                   *)
(***************************************************************************)
\* store.list(txn directory): the staged blobs come in path order.
ListFirst(blobs) == CHOOSE h \in blobs : \A g \in blobs : h[2] <= g[2]

CommitCopyBlob ==
    /\ UNCHANGED other_vars
    /\ pc = "CommittingOdb"
    /\ txn["blob"] # {}
    /\ LET h == ListFirst(txn["blob"]) IN
          \/ /\ h \notin odb["blob"]        \* copy_if_not_exists and delete
             /\ odb' = [odb EXCEPT !["blob"] = @ \cup {h}]
             /\ txn' = [txn EXCEPT !["blob"] = @ \ {h}]
             /\ events' = Append(events, Ev("copy", NoRef, h, TRUE, 0))
             /\ UNCHANGED <<pc, result>>
          \/ /\ h \notin odb["blob"]        \* copied, the delete fails
             /\ odb' = [odb EXCEPT !["blob"] = @ \cup {h}]
             /\ events' = Append(events, Ev("copy", NoRef, h, TRUE, 0))
             /\ Fail("ObjectStoreError")
             /\ UNCHANGED txn
          \/ /\ Fail("ObjectStoreError")    \* destination exists, or the store fails
             /\ events' = Append(events, Ev("copy", NoRef, h, FALSE, 0))
             /\ UNCHANGED <<odb, txn>>
    /\ UNCHANGED <<ref_upload, capabilities, pack, pack_version, pack_size, pack_count,
                   resolved_ofs, unresolved, resolved_count, refs, idx, ok,
                   lookup_failed, progress>>

\* `while let Some(Ok(next))` ends at the end of the listing and also at its
\* first Err item: the blobs not yet copied then stay in the transaction's
\* directory while the session is committed.
CommitSession ==
    /\ UNCHANGED other_vars
    /\ pc = "CommittingOdb"
    /\ \/ /\ odb' = [k \in Kinds |-> IF k = "blob" THEN odb[k] ELSE odb[k] \cup txn[k]]
          /\ txn' = [EmptyOdb EXCEPT !["blob"] = txn["blob"]]
          /\ events' = Append(events, Ev("commit", NoRef, ZeroHash, TRUE, 0))
          /\ pc' = IF Len(ref_upload) = 0 THEN "Reporting" ELSE "UpdatingRefs"
          /\ result' = result
       \/ /\ Fail("MongodbError")
          /\ events' = Append(events, Ev("commit", NoRef, ZeroHash, FALSE, 0))
          /\ UNCHANGED <<odb, txn>>
    /\ UNCHANGED <<ref_upload, capabilities, pack, pack_version, pack_size, pack_count,
                   resolved_ofs, unresolved, resolved_count, refs, idx, ok,
                   lookup_failed, progress>>

(***************************************************************************)
(* MongoRefsManager.                                                       *)
(***************************************************************************)
starts_with(name, prefix) ==
    Len(name) >= Len(prefix) /\ SubSeq(name, 1, Len(prefix)) = prefix

\* ref_name.strip_prefix("refs/heads/"): Some(rest) or None.
strip_prefix(name, prefix) ==
    IF starts_with(name, prefix)
    THEN [some |-> TRUE, val |-> SubSeq(name, Len(prefix) + 1, Len(name))]
    ELSE [some |-> FALSE, val |-> <<>>]

\* find_one by name: the position of the first document, 0 when there is none.
FindRef(store, name) ==
    IF \E i \in DOMAIN store : store[i].name = name
    THEN CHOOSE i \in DOMAIN store :
            store[i].name = name /\ \A j \in DOMAIN store : store[j].name = name => i <= j
    ELSE 0

\* Err(GitInnerError::ObjectNotFound(..)), in the shape of a hash.
ObjectNotFound == <<"ObjectNotFound", 0>>

get_value_refs(store, name) ==
    IF FindRef(store, name) = 0 THEN ObjectNotFound ELSE store[FindRef(store, name)].value

\* create_refs panics on `.unwrap()` when the name is not under refs/heads/.
CreatePanics(name) == ~strip_prefix(name, <<"refs", "heads">>).some

create_refs(store, name, value) ==
    Append(store,
           RefItem(name, value,
                   starts_with(name, <<"refs", "heads">>),
                   starts_with(name, <<"refs", "tags">>),
                   name = <<"HEAD">> \/ strip_prefix(name, <<"refs", "heads">>).val = default_branch))

\* update_one: $set value on the first document of that name, if any.
update_refs(store, name, value) ==
    IF FindRef(store, name) = 0 THEN store
    ELSE [store EXCEPT ![FindRef(store, name)].value = value]

(***************************************************************************)
(* ReceiveCommand.                                                         *)
(***************************************************************************)
is_delete(c) == is_zero(c.new)
is_update(c) == ~is_delete(c)
is_create(c) == is_zero(c.old)

(***************************************************************************)
(* process_receive_pack, the ref loop: one command.                        *)
(***************************************************************************)
OkLine(c) == Ev("send_ok", c.ref_name, c.new, TRUE, IF sidebend THEN 1 ELSE 0)

\* The op the loop calls for c, "none" for a delete.
RefOp(c) ==
    IF is_create(c) THEN "create_refs"
    ELSE IF is_update(c) THEN "update_refs" ELSE "none"

ApplyRefCommand ==
    /\ UNCHANGED other_vars
    /\ pc = "UpdatingRefs"
    /\ idx <= Len(ref_upload)
    /\ LET c == ref_upload[idx]
           op == RefOp(c)
           next == IF idx + 1 > Len(ref_upload) THEN "Reporting" ELSE "UpdatingRefs"
           call(good) == Ev(op, c.ref_name, c.new, good, 0)
           line == OkLine(c)
       IN \/ /\ op = "create_refs"
             /\ CreatePanics(c.ref_name)
             /\ pc' = "Panicked"
             /\ result' = "panic"
             /\ events' = Append(events, call(FALSE))
             /\ UNCHANGED <<refs, ok, idx>>
          \/ /\ op = "create_refs"
             /\ ~CreatePanics(c.ref_name)
             /\ refs' = create_refs(refs, c.ref_name, c.new)
             /\ ok' = TRUE
             /\ events' = events \o <<call(TRUE), line>>
             /\ idx' = idx + 1
             /\ pc' = next
             /\ result' = result
          \/ /\ op = "update_refs"
             /\ refs' = update_refs(refs, c.ref_name, c.new)
             /\ ok' = TRUE
             /\ events' = events \o <<call(TRUE), line>>
             /\ idx' = idx + 1
             /\ pc' = next
             /\ result' = result
          \/ /\ op # "none"                 \* the backend call returns Err
             /\ ~(op = "create_refs" /\ CreatePanics(c.ref_name))
             /\ events' = events \o (IF ok THEN <<call(FALSE), line>> ELSE <<call(FALSE)>>)
             /\ idx' = idx + 1
             /\ pc' = next
             /\ UNCHANGED <<refs, ok, result>>
          \/ /\ op = "none"
             /\ events' = events \o (IF ok THEN <<line>> ELSE <<>>)
             /\ idx' = idx + 1
             /\ pc' = next
             /\ UNCHANGED <<refs, ok, result>>
    /\ UNCHANGED <<ref_upload, capabilities, pack, pack_version, pack_size, pack_count,
                   resolved_ofs, unresolved, resolved_count, odb, txn, lookup_failed,
                   progress>>

\* The closing frames: bend_pkt_flush() and the empty end marker.
Finish ==
    /\ UNCHANGED other_vars
    /\ pc = "Reporting"
    /\ events' = events \o << Ev("send_flush", NoRef, ZeroHash, TRUE, 1),
                              Ev("send_end", NoRef, ZeroHash, TRUE, 0) >>
    /\ pc' = "Done"
    /\ result' = "Ok"
    /\ UNCHANGED <<ref_upload, capabilities, pack, pack_version, pack_size, pack_count,
                   resolved_ofs, unresolved, resolved_count, odb, txn, refs,
                   idx, ok, lookup_failed, progress>>

Next ==
    \/ ReceiveRequest
    \/ ParseReceiveHead
    \/ ReadObject
    \/ ResolveRound
    \/ UnpackDone
    \/ CommitCopyBlob
    \/ CommitSession
    \/ ApplyRefCommand
    \/ Finish

Spec == Init /\ [][Next]_vars

(***************************************************************************)
(* Vocabulary of the properties.                                           *)
(***************************************************************************)
AllHashes ==
    {LiveBlob, LiveCommit, NewBlob, NewCommit, PackDelta, LiveDelta, MissingHash}
    \cup { ChainHash(i) : i \in 1..MaxChain }

Sent(op) == { i \in DOMAIN events : events[i].op = op }
Called(ops) == { i \in DOMAIN events : events[i].op \in ops }
RefCalls == Called({"create_refs", "update_refs"})

\* commit() was entered: a blob copy or the session commit was attempted.
CommitEntered == Called({"copy", "commit"}) # {}
\* commit() returned Ok.
Committed == \E i \in Called({"commit"}) : events[i].ok

Ended == pc \in {"Done", "Failed", "Panicked"}

\* What a fresh reader of the repository gets from has_<kind> and refs().
ReaderSeesInitialState ==
    /\ \A k \in Kinds : \A h \in AllHashes : OdbHas(k, h) <=> h \in InitOdb[k]
    /\ refs = InitRefs

DeltaOffsets == { o \in DOMAIN pack : pack[o].type_id = 7 }
ResolvedOffsets == { r.ofs : r \in resolved_ofs }

(***************************************************************************)
(* C1..C10: the receive-pack transaction.                                  *)
(***************************************************************************)

\* C1: in one receive_pack run every txn.put_* precedes txn.commit(), a
\* successful commit precedes every create_refs/update_refs, and each ref's
\* own successful create_refs/update_refs precedes the "ok <ref>" line sent
\* for it.
C1_PutCommitRefOkOrder ==
    /\ \A i \in Called({"put"}) : \A j \in Called({"commit"}) : i < j
    /\ \A i \in RefCalls : \E j \in Called({"commit"}) : j < i /\ events[j].ok
    /\ \A i \in Sent("send_ok") :
          \E j \in RefCalls :
             /\ j < i
             /\ events[j].ref = events[i].ref
             /\ events[j].ok

\* C2: whenever receive_pack returns Ok, every non-delete command's ref reads
\* back as the command's new hash and that object is in the ODB.
C2_OkMeansRefsPointAtStoredObjects ==
    result = "Ok" =>
       \A i \in DOMAIN ref_upload :
          ~is_delete(ref_upload[i]) =>
             /\ get_value_refs(refs, ref_upload[i].ref_name) = ref_upload[i].new
             /\ HasAny(ref_upload[i].new)

\* C3: when the run fails at any point before txn.commit() has succeeded,
\* a fresh reader gets from has_commit/has_tree/has_blob/has_tag and refs()
\* exactly what it got before the request.
C3_FailureBeforeCommitSucceeded ==
    (pc \in {"Failed", "Panicked"} /\ ~Committed) => ReaderSeesInitialState

\* The part of C3 the code keeps: a failure before commit() is entered
\* (header, object type, decompression, parse, ofs-delta, missing base,
\* premature EOF) leaves the repository as it was.
FailureBeforeCommitEntered ==
    (pc \in {"Failed", "Panicked"} /\ ~CommitEntered) => ReaderSeesInitialState

\* C4: when the stream ends early (UnexpectedEof) the transaction's staged
\* objects are discarded by abort() and no ref has changed.
C4_EofDiscardsStagedObjects ==
    result = "UnexpectedEof" => (txn["blob"] = {} /\ refs = InitRefs)

\* C5: after the pack is unpacked and committed, every command gets exactly
\* one status line, "ok <ref>" if and only if its own ref operation
\* succeeded and "ng <ref> <reason>" otherwise.
C5_OneStatusLinePerCommand ==
    (result = "Ok" /\ Committed) =>
       \A i \in DOMAIN ref_upload :
          LET r == ref_upload[i].ref_name
              oks == { j \in Sent("send_ok") : events[j].ref = r }
              ngs == { j \in Sent("send_ng") : events[j].ref = r }
              succeeded == \E j \in RefCalls : events[j].ref = r /\ events[j].ok
          IN /\ Cardinality(oks) + Cardinality(ngs) = 1
             /\ (oks # {}) <=> succeeded

\* A command that cannot be applied as sent: its ref call failed, its old
\* value is not the ref's value, or its new object is in no store.
CommandFails(c) ==
    \/ \E j \in RefCalls : events[j].ref = c.ref_name /\ ~events[j].ok
    \/ /\ ~is_create(c)
       /\ get_value_refs(InitRefs, c.ref_name) # c.old
    \/ /\ is_create(c)
       /\ get_value_refs(InitRefs, c.ref_name) # ObjectNotFound
    \/ /\ ~is_delete(c)
       /\ ~HasAny(c.new)

\* C6: with the atomic capability negotiated, if any command of the request
\* fails then no ref has changed once the request is over.
C6_AtomicAllOrNothing ==
    ( /\ Ended
      /\ "atomic" \in capabilities
      /\ \E i \in DOMAIN ref_upload : CommandFails(ref_upload[i]) )
    => refs = InitRefs

\* C7: "unpack ok" is sent only after txn.commit() succeeded, and a failed
\* commit sends "unpack error <reason>" and touches no ref.
C7_UnpackOkOnlyAfterCommit ==
    /\ \A i \in Sent("send_unpack_ok") :
          \E j \in Called({"commit"}) : j < i /\ events[j].ok
    /\ (pc = "Failed" /\ CommitEntered) =>
          /\ Sent("send_unpack_error") # {}
          /\ refs = InitRefs

\* The errors of the header, the object stream and the delta loop.
UnpackFailures ==
    {"UnexpectedEof", "InvalidData", "UnsupportedOfsDelta", "DecompressionError",
     "CommitParseError", "TreeParseError", "TagParseError", "MissingBaseObject"}

\* C8: a failure while reading the header, streaming objects or resolving
\* deltas sends "unpack error <reason>" and performs no ref update.
C8_FailureSendsUnpackError ==
    (pc = "Failed" /\ result \in UnpackFailures) =>
       /\ Sent("send_unpack_error") # {}
       /\ RefCalls = {}
       /\ refs = InitRefs

(***************************************************************************)
(* The delta loop.                                                         *)
(***************************************************************************)
\* Hashes apply_delta finds when the loop starts: the pack's plain objects
\* and the repository's.
PlainHashes ==
    { pack[o].hash : o \in { x \in DOMAIN pack : ObjectTypeOf(pack[x].type_id) \in Kinds } }
InitAvail == PlainHashes \cup UNION { InitOdb[k] : k \in Kinds }

Unreachable == MaxRounds + MaxChain + MaxObjs + 1

\* The number of deltas on o's base chain down to an available object,
\* Unreachable when the chain ends nowhere; with `clean`, also when a delta
\* on it does not apply cleanly.
RECURSIVE Links(_, _, _)
Links(o, fuel, clean) ==
    LET parents == { p \in DeltaOffsets : pack[p].hash = pack[o].base }
    IN IF clean /\ pack[o].delta # "ok" THEN Unreachable
       ELSE IF pack[o].base \in InitAvail THEN 1
       ELSE IF parents = {} \/ fuel = 0 THEN Unreachable
       ELSE 1 + Links(CHOOSE p \in parents : TRUE, fuel - 1, clean)

Staged(o) ==
    /\ o \in ResolvedOffsets
    /\ \E k \in Kinds : TxnHas(k, pack[o].hash)

\* A round of the loop is taken.
RoundStep ==
    /\ pc = "ResolvingDeltas"
    /\ unresolved # {}
    /\ resolved_count' = resolved_count - 1

Shrinks == unresolved' \subseteq unresolved /\ unresolved' # unresolved

StagingErrors ==
    {"CommitParseError", "TreeParseError", "TagParseError",
     "ObjectStoreError", "MongodbError"}

\* The loop is over: commit is reached or MissingBaseObject is returned.
LoopOver ==
    \/ pc \in {"Resolved", "CommittingOdb", "UpdatingRefs", "Reporting"}
    \/ CommitEntered
    \/ result = "MissingBaseObject"

RoundBudget == pc = "ResolvingDeltas" => resolved_count >= 1

CommitOnlyWhenResolved ==
    (pc = "CommittingOdb" \/ CommitEntered) => unresolved = {}

NewObjects ==
    { x \in { <<r.kind, r.hash>> : r \in resolved_ofs } : x[2] \notin InitOdb[x[1]] }

SeenByReader == { x \in NewObjects : OdbHas(x[1], x[2]) }

\* C10: commit is atomic for fresh readers: at every moment a reader sees
\* all of the transaction's objects or none of them, and none after commit
\* returned an error.
C10_CommitAtomicForReaders ==
    /\ SeenByReader = {} \/ SeenByReader = NewObjects
    /\ (pc = "Failed" /\ CommitEntered) => SeenByReader = {}

(***************************************************************************)
(* OdbMongoObject::begin_transaction and OdbMongoTransaction: two          *)
(* receive-pack requests on one repository, each with the transaction it   *)
(* began.  abort() and rollback() are called nowhere in the program (a     *)
(* failing receive_pack returns without them), so no step takes them.      *)
(***************************************************************************)
not_odb_vars == <<vars, ref_call, up_vars, side_vars>>

\* The objects the two requests push.
PushedBlobs == {Blob(NewBlob), Blob(LiveBlob)}
PushedDocs == {Doc("commit", NewCommit), Doc("tree", NewTree), Doc("tag", NewTag)}

Exists(p) == p \in DOMAIN object_store
\* store.put(path, payload): the payload under the path is replaced.
StorePut(p, d) == [q \in DOMAIN object_store \cup {p} |-> IF q = p THEN d ELSE object_store[q]]
\* store.copy_if_not_exists(from, to) followed by store.delete(from).
StoreCopy(from, to) == [q \in DOMAIN object_store \cup {to} |-> IF q = to THEN object_store[from] ELSE object_store[q]]
StoreDelete(S, p) == [q \in DOMAIN S \ {p} |-> S[q]]
\* store.list(`{repo_uid}/txn.{id}`)
StoreList(id) == { p \in DOMAIN object_store : p.dir = "txn" /\ p.id = id }

\* What is durable in the repository: OdbMongoObject's has_X.
Durable ==
    { <<"blob", [id |-> p.name, data |-> object_store[p]]>> : p \in { q \in DOMAIN object_store : q.dir = "repo" } }
    \cup UNION { { <<k, o>> : o \in coll[k] } : k \in DocKinds }

\* find_one(..).session(session) without the session: the committed documents.
session_find_NoSession(t, k) == coll[k]
\* find_one(..).session(session): the snapshot of the session's transaction
\* and the session's own writes.
session_find(t, k) == sessions[t].snap[k] \cup sessions[t].docs[k]

Some(v) == [ok |-> TRUE, val |-> v]
Err(e) == [ok |-> FALSE, val |-> [err |-> e]]

\* OdbMongoTransaction::has_commit / has_tree / has_tag
has_doc(t, k, h) == \E o \in session_find(t, k) : o.hash = h
\* OdbMongoTransaction::get_commit / get_tree / get_tag
get_doc(t, k, h) ==
    IF has_doc(t, k, h)
    THEN Some(CHOOSE o \in session_find(t, k) : o.hash = h)
    ELSE Err("ObjectNotFound")
\* OdbMongoTransaction::has_blob
has_blob(t, h) == Exists(MainPath(h)) \/ Exists(TxnPath(sessions[t].id, h))
\* OdbMongoTransaction::get_blob: the repository's path first, then the
\* transaction's.
get_blob(t, h) ==
    IF Exists(MainPath(h))
    THEN Some([id |-> h, data |-> object_store[MainPath(h)]])
    ELSE IF Exists(TxnPath(sessions[t].id, h))
         THEN Some([id |-> h, data |-> object_store[TxnPath(sessions[t].id, h)]])
         ELSE Err("ObjectStoreError")

has_X(t, k, h) == IF k = "blob" THEN has_blob(t, h) ELSE has_doc(t, k, h)
get_X(t, k, h) == IF k = "blob" THEN get_blob(t, h) ELSE get_doc(t, k, h)
HashOf(k, o) == IF k = "blob" THEN o.id ELSE o.hash

Tick ==
    /\ now < MaxSecond
    /\ now' = now + 1
    /\ UNCHANGED <<object_store, coll, sessions, not_odb_vars>>

begin_transaction(t) ==
    /\ sessions[t].st = "idle"
    /\ \/ sessions' = [sessions EXCEPT ![t] =
                          [st |-> "open", id |-> now, snap |-> coll, docs |-> EmptyDocs,
                           puts |-> {}, before |-> Durable, moved |-> {}, err |-> ""]]
       \/ sessions' = [sessions EXCEPT ![t].st = "failed", ![t].err = "MongodbError"]
    /\ UNCHANGED <<now, object_store, coll, not_odb_vars>>

\* insert_one(obj).session(session); an Err leaves everything as it was.
put_doc(t, o) ==
    /\ sessions[t].st = "open"
    /\ sessions' = [sessions EXCEPT ![t].docs[o.kind] = @ \cup {o},
                                    ![t].puts = @ \cup {<<o.kind, o>>}]
    /\ UNCHANGED <<now, object_store, coll, not_odb_vars>>

put_commit(t) == put_doc(t, Doc("commit", NewCommit))
put_tree(t) == put_doc(t, Doc("tree", NewTree))
put_tag(t) == put_doc(t, Doc("tag", NewTag))

put_blob(t, b) ==
    /\ sessions[t].st = "open"
    /\ object_store' = StorePut(TxnPath(sessions[t].id, b.id), b.data)
    /\ sessions' = [sessions EXCEPT ![t].puts = @ \cup {<<"blob", b>>}]
    /\ UNCHANGED <<now, coll, not_odb_vars>>

\* commit(), one listed path: copy_if_not_exists to the repository's
\* directory, then delete.
commit_copy(t) ==
    /\ sessions[t].st \in {"open", "committing"}
    /\ \E p \in StoreList(sessions[t].id) :
          \/ /\ ~Exists(MainPath(p.name))
             /\ object_store' = StoreDelete(StoreCopy(p, MainPath(p.name)), p)
             /\ sessions' = [sessions EXCEPT ![t].st = "committing",
                                             ![t].moved = @ \cup {p.name}]
          \/ /\ ~Exists(MainPath(p.name))       \* copied, the delete fails
             /\ object_store' = StoreCopy(p, MainPath(p.name))
             /\ sessions' = [sessions EXCEPT ![t].st = "failed",
                                             ![t].moved = @ \cup {p.name},
                                             ![t].err = "ObjectStoreError"]
          \/ /\ Exists(MainPath(p.name))        \* copy_if_not_exists: AlreadyExists
             /\ sessions' = [sessions EXCEPT ![t].st = "failed",
                                             ![t].err = "AlreadyExists"]
             /\ UNCHANGED object_store
          \/ /\ sessions' = [sessions EXCEPT ![t].st = "failed",      \* the store fails
                                             ![t].err = "ObjectStoreError"]
             /\ UNCHANGED object_store
    /\ UNCHANGED <<now, coll, not_odb_vars>>

\* commit(), after the listing ended (at its end or at its first Err item):
\* session.commit_transaction().
commit_transaction(t) ==
    /\ sessions[t].st \in {"open", "committing"}
    /\ \/ /\ coll' = [k \in DocKinds |-> coll[k] \cup sessions[t].docs[k]]
          /\ sessions' = [sessions EXCEPT ![t].st = "committed"]
       \/ /\ sessions' = [sessions EXCEPT ![t].st = "failed", ![t].err = "MongodbError"]
          /\ UNCHANGED coll
    /\ UNCHANGED <<now, object_store, not_odb_vars>>

NextOdb ==
    \/ Tick
    \/ \E t \in Txns : begin_transaction(t)
    \/ \E t \in Txns : put_commit(t)
    \/ \E t \in Txns : put_tree(t)
    \/ \E t \in Txns : put_tag(t)
    \/ \E t \in Txns, b \in PushedBlobs : put_blob(t, b)
    \/ \E t \in Txns : commit_copy(t)
    \/ \E t \in Txns : commit_transaction(t)

all_vars == <<vars, other_vars>>

SpecOdb == Init /\ [][NextOdb]_all_vars

(***************************************************************************)
(* Properties of the ODB transactions.                                     *)
(***************************************************************************)
\* x = <<kind, object>> is returned by transaction t's has_X and get_X.
Returned(t, x) ==
    /\ has_X(t, x[1], HashOf(x[1], x[2]))
    /\ get_X(t, x[1], HashOf(x[1], x[2])).ok
    /\ get_X(t, x[1], HashOf(x[1], x[2])).val = x[2]

StagedOnlyBy(u, t) == (sessions[u].puts \ sessions[t].puts) \ Durable

\* C12: of two concurrent transactions, neither's has_X/get_X returns an
\* object that only the other staged, and the commit() of neither copies
\* (makes durable) or deletes a blob it did not stage itself, also when both
\* began within the same second.
C12_TxnOwnsItsStagedObjects ==
    \A t, u \in Txns :
        t # u =>
            /\ sessions[t].st = "open" /\ sessions[u].st = "open" =>
                   \A x \in StagedOnlyBy(u, t) :
                       /\ ~has_X(t, x[1], HashOf(x[1], x[2]))
                       /\ ~get_X(t, x[1], HashOf(x[1], x[2])).ok
            /\ sessions[t].moved \subseteq
                   { x[2].id : x \in { y \in sessions[t].puts : y[1] = "blob" } }

(***************************************************************************)
(* MongoRefsManager called directly: create_refs, update_refs and del_refs *)
(* on the refs collection, with any ref name.  `result` holds what the     *)
(* last call returned ("panic" when the calling task panicked).            *)
(***************************************************************************)
not_refs_vars == <<pc, ref_upload, capabilities, pack, pack_version, pack_size, pack_count,
                   resolved_ofs, unresolved, resolved_count, odb, txn, idx, ok,
                   lookup_failed, progress, events, odb_vars, up_vars, side_vars>>

HeadRef == <<"HEAD">>
Notes == <<"refs", "notes", "commits">>
RefNames == {Main, Dev, TagV1, HeadRef, Notes}
RefValues == {LiveCommit, NewCommit}

\* `ref_name.strip_prefix("refs/heads/").unwrap()` panics on None.
DelPanics(name) == ~strip_prefix(name, <<"refs", "heads">>).some

\* delete_one: the first document of that name, if any, is removed.
delete_one(store, name) ==
    IF FindRef(store, name) = 0 THEN store
    ELSE SubSeq(store, 1, FindRef(store, name) - 1)
         \o SubSeq(store, FindRef(store, name) + 1, Len(store))

Call(op, name) == [op |-> op, name |-> name]

CreateRefs(name, value) ==
    /\ Len(refs) < MaxRefs
    /\ ref_call' = Call("create_refs", name)
    /\ \/ /\ CreatePanics(name)
          /\ result' = "panic"
          /\ UNCHANGED refs
       \/ /\ ~CreatePanics(name)
          /\ refs' = create_refs(refs, name, value)
          /\ result' = "Ok"
       \/ /\ ~CreatePanics(name)            \* insert_one failed
          /\ result' = "MongodbError"
          /\ UNCHANGED refs
    /\ UNCHANGED not_refs_vars

UpdateRefs(name, value) ==
    /\ ref_call' = Call("update_refs", name)
    /\ \/ /\ refs' = update_refs(refs, name, value)
          /\ result' = "Ok"
       \/ /\ result' = "MongodbError"       \* update_one failed
          /\ UNCHANGED refs
    /\ UNCHANGED not_refs_vars

DelRefs(name) ==
    /\ ref_call' = Call("del_refs", name)
    /\ \/ /\ DelPanics(name)
          /\ result' = "panic"
          /\ UNCHANGED refs
       \/ /\ ~DelPanics(name)
          /\ strip_prefix(name, <<"refs", "heads">>).val = default_branch
          /\ result' = "DefaultBranchCannotBeDeleted"
          /\ UNCHANGED refs
       \/ /\ ~DelPanics(name)
          /\ strip_prefix(name, <<"refs", "heads">>).val # default_branch
          /\ \/ /\ refs' = delete_one(refs, name)
                /\ result' = "Ok"
             \/ /\ result' = "MongodbError" \* delete_one failed
                /\ UNCHANGED refs
    /\ UNCHANGED not_refs_vars

NextRefs ==
    \/ \E name \in RefNames, value \in RefValues : CreateRefs(name, value)
    \/ \E name \in RefNames, value \in RefValues : UpdateRefs(name, value)
    \/ \E name \in RefNames : DelRefs(name)

SpecRefs == Init /\ [][NextRefs]_all_vars

(***************************************************************************)
(* Properties of the refs manager.                                         *)
(***************************************************************************)
DefaultRef == <<"refs", "heads">> \o default_branch
RefExists(name) == FindRef(refs, name) # 0

\* C13: del_refs of the default branch returns DefaultBranchCannotBeDeleted
\* and the ref stays stored; del_refs of every other name (a branch, a tag,
\* any other path) returns Ok and the ref is gone afterwards (a failure of
\* the database call itself apart).
C13_DelRefs ==
    ref_call.op = "del_refs" =>
        IF ref_call.name = DefaultRef
        THEN result = "DefaultBranchCannotBeDeleted" /\ RefExists(DefaultRef)
        ELSE \/ result = "Ok" /\ ~RefExists(ref_call.name)
             \/ result = "MongodbError"

\* The flags create_refs is to store for a name.
FlagsFor(item) ==
    /\ item.is_branch = starts_with(item.name, <<"refs", "heads">>)
    /\ item.is_tag = starts_with(item.name, <<"refs", "tags">>)
    /\ item.is_head = (item.name = HeadRef \/ item.name = DefaultRef)

\* At most one flag, the default branch's item having is_branch and is_head.
FlagsExclusive(item) ==
    \/ item.name = DefaultRef /\ item.is_branch /\ item.is_head /\ ~item.is_tag
    \/ Cardinality({ f \in {"b", "t", "h"} :
                        \/ f = "b" /\ item.is_branch
                        \/ f = "t" /\ item.is_tag
                        \/ f = "h" /\ item.is_head }) <= 1

\* C14: create_refs returns a value for every ref name (it never aborts the
\* caller), the item it stores carries the flags of its name, and the flags
\* of every stored item are mutually exclusive but for the default branch
\* (a failure of the database call itself apart).
C14_CreateRefs ==
    /\ ref_call.op = "create_refs" =>
          \/ result = "Ok" /\ refs # <<>> /\ refs[Len(refs)].name = ref_call.name
                           /\ FlagsFor(refs[Len(refs)])
          \/ result = "MongodbError"
    /\ \A i \in DOMAIN refs : FlagsExclusive(refs[i])

(***************************************************************************)
(* Upload-pack:                                                            *)
(*   Transaction::upload_pack        src/src/transaction/upload/upload_pack.rs    *)
(*   Transaction::upload_pack_v2     .../upload/upload_pack_v2.rs          *)
(*   recursion_pack_pool_found_iter  .../upload/recursion.rs               *)
(*   upload_pack_encode              .../upload/encode_pack.rs             *)
(* One fetch against a repository of three commits, their trees and blobs  *)
(* and one annotated tag.                                                  *)
(***************************************************************************)
not_up_vars == <<vars, odb_vars, ref_call, side_vars>>

Commit1 == <<"commit", 1>>
Commit2 == <<"commit", 2>>
Commit3 == <<"commit", 3>>
Tree1 == <<"tree", 1>>
Tree2 == <<"tree", 2>>
Tree3 == <<"tree", 3>>
Blob1 == <<"blob", 1>>
Blob2 == <<"blob", 2>>
Blob3 == <<"blob", 3>>
Tag1 == <<"tag", 1>>

CommitObj(tree, parents, n) ==
    [kind |-> "commit", tree |-> tree, parents |-> parents, entries |-> <<>>,
     object |-> ZeroHash, zlen |-> n]
TreeObj(entries, n) ==
    [kind |-> "tree", tree |-> ZeroHash, parents |-> <<>>, entries |-> entries,
     object |-> ZeroHash, zlen |-> n]
BlobObj(n) ==
    [kind |-> "blob", tree |-> ZeroHash, parents |-> <<>>, entries |-> <<>>,
     object |-> ZeroHash, zlen |-> n]
TagObj(object, n) ==
    [kind |-> "tag", tree |-> ZeroHash, parents |-> <<>>, entries |-> <<>>,
     object |-> object, zlen |-> n]

\* The objects the ODB's get_X return, each with the length of what
\* Object::zlib makes of it.  Commit3 is a merge whose second parent,
\* Commit2, is a child of its first; Tree3 holds an entry (a gitlink) that
\* is no object of this repository.
Repo ==
    [h \in {Commit1, Commit2, Commit3, Tree1, Tree2, Tree3, Blob1, Blob2, Blob3, Tag1} |->
        CASE h = Commit1 -> CommitObj(Tree1, <<>>, 150)
          [] h = Commit2 -> CommitObj(Tree2, <<Commit1>>, 160)
          [] h = Commit3 -> CommitObj(Tree3, <<Commit1, Commit2>>, 180)
          [] h = Tree1 -> TreeObj(<<Blob1>>, 50)
          [] h = Tree2 -> TreeObj(<<Blob1, Blob2>>, 80)
          [] h = Tree3 -> TreeObj(<<Blob2, Blob3, MissingHash>>, 110)
          [] h = Blob1 -> BlobObj(40)
          [] h = Blob2 -> BlobObj(70000)
          [] h = Blob3 -> BlobObj(900)
          [] OTHER -> TagObj(Commit2, 120)]

\* has_commit || has_tree || has_blob || has_tag
has_object(h) == h \in DOMAIN Repo

\* find_object: the first of get_commit, get_tree, get_tag, get_blob that
\* returns Ok; an Err of all four is Ok(None).
find_object(h) == IF h \in DOMAIN Repo THEN [some |-> TRUE, val |-> Repo[h]]
                  ELSE [some |-> FALSE, val |-> BlobObj(0)]

\* The fetches a client sends.
WantLists ==
    { w \in SeqsUpTo({Commit1, Commit2, Commit3, Tag1, MissingHash}, MaxWants) :
        w # <<>> /\ Injective(w) }
\* The have lines of a fetch, in the order they are sent, and whether a
\* "done" line follows them.
HaveLines ==
    { [haves |-> <<>>, done |-> TRUE],
      [haves |-> <<Commit1, MissingHash>>, done |-> TRUE],
      [haves |-> <<Commit2, Commit1>>, done |-> TRUE],
      [haves |-> <<MissingHash>>, done |-> FALSE] }
Deepens == {None} \cup { [some |-> TRUE, val |-> d] : d \in 1..MaxDepth }
\* Version 2 has no side-band capability: its packfile section is always
\* multiplexed.
FetchCapabilities(version) ==
    IF version = "V2" THEN SUBSET {"include-tag"}
    ELSE SUBSET {"side-band", "side-band-64k", "include-tag"}

Pkt(text, n) == [kind |-> "pkt", band |-> 0, text |-> text, n |-> n, from |-> 0, to |-> 0]
Band(band, text, n, from, to) ==
    [kind |-> "band", band |-> band, text |-> text, n |-> n, from |-> from, to |-> to]
RawBytes(from, to) ==
    [kind |-> "raw", band |-> 0, text |-> "pack", n |-> 0, from |-> from, to |-> to]
Flush == [kind |-> "flush", band |-> 0, text |-> "0000", n |-> 0, from |-> 0, to |-> 0]

\* "ACK <hash>" for every have line, known or not.
Acks_EveryHave(haves) == [i \in 1..Len(haves) |-> Pkt("ACK", haves[i][2])]
\* "ACK <hash>" for every have line the ODB holds, in the order of the lines.
Acks(haves) ==
    [i \in 1..Len(SelectSeq(haves, has_object)) |->
        Pkt("ACK", SelectSeq(haves, has_object)[i][2])]

\* Transaction::upload_pack / upload_pack_v2 up to the first send of
\* upload_pack_encode.
UploadRequest ==
    /\ up_pc = "WaitingRequest"
    /\ \E version \in {"V1", "V2"}, wants \in WantLists, lines \in HaveLines, dp \in Deepens :
         \E caps \in FetchCapabilities(version) :
            LET haves == lines.haves
                done == lines.done
                have == { haves[i] : i \in { j \in DOMAIN haves : has_object(haves[j]) } }
                found_common == IF version = "V1" THEN have # {}
                                ELSE haves = <<>> \/ have # {}
            IN  /\ request' = [version |-> version, capabilities |-> caps,
                               want |-> wants, have |-> have, depth |-> dp,
                               include_tag |-> "include-tag" \in caps,
                               sideband |-> (version = "V2" \/ "side-band" \in caps),
                               haves |-> haves, done |-> done]
                /\ IF version = "V2" /\ ~found_common
                   THEN /\ sent' = Acks(haves) \o << Pkt("NAK", 0) >>
                        /\ up_pc' = "Done"
                   ELSE /\ sent' = Acks(haves)
                                   \o (IF done /\ ~found_common THEN << Pkt("NAK", 0) >>
                                       ELSE <<>>)
                                   \o << Pkt("packfile", 0) >>
                        /\ up_pc' = "Walking"
    /\ UNCHANGED <<want_i, stack, visited, objs, index, handles, finished,
                   compressed_list, raw, offset, not_up_vars>>

\* `let mut stack = vec![(root, 0usize)];` for the next want.
StartWalk ==
    /\ up_pc = "Walking"
    /\ stack = <<>>
    /\ want_i <= Len(request.want)
    /\ stack' = << <<request.want[want_i], 0>> >>
    /\ want_i' = want_i + 1
    /\ UNCHANGED <<up_pc, request, visited, objs, index, handles, finished,
                   compressed_list, raw, offset, sent, not_up_vars>>

\* The hash was seen before.
Skipped_VisitedOnly(h) == h \in visited
\* `!visited.insert(hash) || self.have.contains(&hash)`
Skipped(h) == h \in visited \/ h \in request.have

\* What the walk pushes for an object found at depth d, in push order.
Pushes(o, d) ==
    CASE o.kind = "commit" ->
            << <<o.tree, d>> >> \o [i \in 1..Len(o.parents) |-> <<o.parents[i], d + 1>>]
      [] o.kind = "tree" -> [i \in 1..Len(o.entries) |-> <<o.entries[i], d>>]
      [] o.kind = "tag" -> IF request.include_tag THEN << <<o.object, d>> >> ELSE <<>>
      [] OTHER -> <<>>

\* One iteration of `while let Some((hash, depth)) = stack.pop()`.
WalkStep ==
    /\ up_pc = "Walking"
    /\ stack # <<>>
    /\ LET hash == stack[Len(stack)][1]
           depth == stack[Len(stack)][2]
           rest == SubSeq(stack, 1, Len(stack) - 1)
           obj_opt == find_object(hash)
       IN  /\ visited' = visited \cup {hash}
           /\ IF \/ Skipped(hash)
                 \/ request.depth.some /\ depth >= request.depth.val
                 \/ ~obj_opt.some
              THEN /\ stack' = rest
                   /\ objs' = objs
              ELSE /\ stack' = rest \o Pushes(obj_opt.val, depth)
                   /\ objs' = Append(objs, hash)
    /\ UNCHANGED <<up_pc, request, want_i, index, handles, finished,
                   compressed_list, raw, offset, sent, not_up_vars>>

\* After the walks: "find pack N", and the end of the response when nothing
\* was selected.
FindPack ==
    /\ up_pc = "Walking"
    /\ stack = <<>>
    /\ want_i > Len(request.want)
    /\ LET found == IF request.sideband THEN Band(2, "find pack", Len(objs), 0, 0)
                    ELSE Pkt("find pack", Len(objs))
       IN  IF objs = <<>>
           THEN /\ sent' = sent \o << found, Flush >>
                /\ up_pc' = "Done"
           ELSE /\ sent' = Append(sent, found)
                /\ up_pc' = "Compressing"
    /\ UNCHANGED <<request, want_i, stack, visited, objs, index, handles, finished,
                   compressed_list, raw, offset, not_up_vars>>

Min(a, b) == IF a < b THEN a ELSE b

\* Object::zlib: the entry header (type, size) and the deflated body.
type_code(kind) ==
    CASE kind = "commit" -> 1 [] kind = "tree" -> 2 [] kind = "blob" -> 3 [] OTHER -> 4
zlib(h) == <<"zlib", type_code(Repo[h].kind), h>>

\* One batch: `for i in index..(index + concurrency).min(objs_arc.len())`
\* spawns a blocking task per object.
SpawnBatch ==
    /\ up_pc = "Compressing"
    /\ handles = <<>>
    /\ index <= Len(objs)
    /\ handles' = [i \in 1..Min(concurrency, Len(objs) - index + 1) |-> index + i - 1]
    /\ UNCHANGED <<up_pc, request, want_i, stack, visited, objs, index, finished,
                   compressed_list, raw, offset, sent, not_up_vars>>

\* A spawned task runs to its end, in any order among the tasks of the batch.
TaskFinishes(i) ==
    /\ up_pc = "Compressing"
    /\ \E j \in DOMAIN handles : handles[j] = i
    /\ i \notin finished
    /\ finished' = finished \cup {i}
    /\ UNCHANGED <<up_pc, request, want_i, stack, visited, objs, index, handles,
                   compressed_list, raw, offset, sent, not_up_vars>>

\* The handles awaited as their tasks end.
Joinable_AsCompleted(h, f) == { j \in DOMAIN h : h[j] \in f }
\* `for h in handles { match h.await {..} }`: the first handle, once its task
\* ended.
Joinable(h, f) == { j \in DOMAIN h : j = 1 /\ h[j] \in f }

JoinHandle ==
    /\ up_pc = "Compressing"
    /\ \E j \in Joinable(handles, finished) :
          \/ /\ compressed_list' =
                    Append(compressed_list, <<objs[handles[j]], zlib(objs[handles[j]])>>)
             /\ handles' = SubSeq(handles, 1, j - 1) \o SubSeq(handles, j + 1, Len(handles))
             /\ index' = IF Len(handles) = 1 THEN index + concurrency ELSE index
             /\ UNCHANGED <<up_pc, finished>>
          \/ /\ up_pc' = "Failed"         \* Ok(Err(e)) or a join error
             /\ handles' = <<>>
             /\ finished' = {}
             /\ UNCHANGED <<compressed_list, index>>
    /\ UNCHANGED <<request, want_i, stack, visited, objs, raw, offset, sent, not_up_vars>>

\* The hash over the entries alone.
Trailer_EntriesOnly(header, entries) == <<"sha", entries>>
\* hash.update(header), hash.update(entry) for every entry, hash.finalize().
Trailer(header, entries) == <<"sha", <<header>> \o entries>>

PieceLen(p) ==
    CASE p[1] = "PACK" -> PACK_HEADER_LEN
      [] p[1] = "zlib" -> Repo[p[3]].zlen
      [] OTHER -> 20

RECURSIVE RawLen(_)
RawLen(r) == IF r = <<>> THEN 0 ELSE PieceLen(r[1]) + RawLen(Tail(r))

\* The one segment (TARGET_PACK_BYTES is usize::MAX): header, every
\* compressed object, trailer.
BuildSegment ==
    /\ up_pc = "Compressing"
    /\ handles = <<>>
    /\ index > Len(objs)
    /\ LET header == <<"PACK", 2, Len(compressed_list)>>
           entries == [i \in DOMAIN compressed_list |-> compressed_list[i][2]]
       IN  raw' = <<header>> \o entries \o << Trailer(header, entries) >>
    /\ up_pc' = "Sending"
    /\ finished' = {}
    /\ UNCHANGED <<request, want_i, stack, visited, objs, index, handles,
                   compressed_list, offset, sent, not_up_vars>>

MAX_PAYLOAD_PER_PKT == MAX_PKT_LINE - 4 - 1

\* The segment goes out: in channel-1 frames of at most MAX_PAYLOAD_PER_PKT
\* bytes when `sideband` is set, in one piece otherwise.
SendChunk ==
    /\ up_pc = "Sending"
    /\ offset < RawLen(raw)
    /\ LET chunk_size == IF request.sideband
                         THEN Min(RawLen(raw) - offset, MAX_PAYLOAD_PER_PKT)
                         ELSE RawLen(raw)
       IN  /\ sent' = Append(sent, IF request.sideband
                                   THEN Band(1, "pack", 0, offset, offset + chunk_size)
                                   ELSE RawBytes(offset, offset + chunk_size))
           /\ offset' = offset + chunk_size
    /\ UNCHANGED <<up_pc, request, want_i, stack, visited, objs, index, handles,
                   finished, compressed_list, raw, not_up_vars>>

\* The progress message and the final flush.
FinishUpload ==
    /\ up_pc = "Sending"
    /\ offset = RawLen(raw)
    /\ sent' = sent \o << IF request.sideband THEN Band(2, "progress", 100, 0, 0)
                          ELSE Pkt("progress", 100),
                          Flush >>
    /\ up_pc' = "Done"
    /\ UNCHANGED <<request, want_i, stack, visited, objs, index, handles, finished,
                   compressed_list, raw, offset, not_up_vars>>

NextUpload ==
    \/ UploadRequest
    \/ StartWalk
    \/ WalkStep
    \/ FindPack
    \/ SpawnBatch
    \/ \E i \in 1..Len(objs) : TaskFinishes(i)
    \/ JoinHandle
    \/ BuildSegment
    \/ SendChunk
    \/ FinishUpload

SpecUpload == Init /\ [][NextUpload]_all_vars

(***************************************************************************)
(* Properties of upload-pack.                                              *)
(***************************************************************************)
Range(f) == { f[i] : i \in DOMAIN f }

\* The walks of all wants are over ("find pack N" was sent).
WalkOver ==
    /\ up_pc \in {"Compressing", "Sending", "Done", "Failed"}
    /\ want_i > Len(request.want)

\* An object of the ODB outside the have set.
Eligible(h) == has_object(h) /\ h \notin request.have

\* commit->tree, commit->parent, tree->entry, and tag->object with include-tag.
Edges(h) ==
    IF ~has_object(h) THEN {}
    ELSE CASE Repo[h].kind = "commit" -> {Repo[h].tree} \cup Range(Repo[h].parents)
           [] Repo[h].kind = "tree" -> Range(Repo[h].entries)
           [] Repo[h].kind = "tag" -> IF request.include_tag THEN {Repo[h].object} ELSE {}
           [] OTHER -> {}

RECURSIVE ReachFrom(_)
ReachFrom(S) ==
    LET T == S \cup { c \in UNION { Edges(h) : h \in S } : Eligible(c) }
    IN  IF T = S THEN S ELSE ReachFrom(T)

\* What some want reaches along a path free of haves.
Reachable == ReachFrom({ w \in Range(request.want) : Eligible(w) })

Commits(S) == { h \in S : has_object(h) /\ Repo[h].kind = "commit" }

\* The commits at parent-distance 0: the wanted commits, and the commits the
\* wanted tags point at when include-tag is set.
DepthRoots ==
    Commits({ w \in Range(request.want) : Eligible(w) }
            \cup { c \in UNION { Edges(w) : w \in { t \in Range(request.want) :
                                                     Eligible(t) /\ Repo[t].kind = "tag" } } :
                     Eligible(c) })

\* The commits at parent-distance less than n from the commits of S.
RECURSIVE Within(_, _)
Within(S, n) ==
    IF n = 0 THEN {}
    ELSE S \cup Within({ p \in UNION { Range(Repo[c].parents) : c \in S } : Eligible(p) }, n - 1)

\* C16: with depth = d the selected commits are exactly the commits whose
\* least parent-edge distance from some want is less than d and that no have
\* excludes; every want that is in the ODB and not in have is selected.
C16_DepthSelectsByDistance ==
    WalkOver /\ request.depth.some =>
        /\ Commits(Range(objs)) = Within(DepthRoots, request.depth.val)
        /\ \A w \in Range(request.want) : Eligible(w) => w \in Range(objs)

ErrorSent == \E i \in DOMAIN sent : sent[i].band = 3 \/ sent[i].text = "ERR"
\* Every byte of a built pack, trailer included, was sent.
PackCompleted == raw # <<>> /\ offset = RawLen(raw)

\* C17: when some want is found in the ODB under no kind, an error text is
\* sent and the response ends without a complete pack: no pack with a valid
\* trailer silently omits a wanted object.
C17_MissingWantIsAnError ==
    (\E w \in Range(request.want) : ~has_object(w)) =>
        /\ ~PackCompleted
        /\ up_pc = "Done" /\ WalkOver => ErrorSent

IsPackFrame(f) == f.text = "pack"
\* The frames that carry pack bytes, in the order sent.
PackFrames == SelectSeq(sent, IsPackFrame)

\* The payloads of the pack frames, put end to end, are the first n bytes of
\* the segment.
FramesCover(n) ==
    /\ n > 0 => PackFrames # <<>>
    /\ \A i \in DOMAIN PackFrames :
          /\ PackFrames[i].from = (IF i = 1 THEN 0 ELSE PackFrames[i - 1].to)
          /\ PackFrames[i].from < PackFrames[i].to
          /\ i = Len(PackFrames) => PackFrames[i].to = n

\* C18: for a non-empty selection the pack bytes sent, side-band framing
\* removed, are one packfile: "PACK", version 2, the number of selected
\* objects, one entry per selected object, and a trailer that is the hash of
\* exactly the bytes sent before it.
C18_OnePackfileWithValidTrailer ==
    /\ up_pc = "Sending" => FramesCover(offset)
    /\ up_pc = "Done" /\ WalkOver /\ objs # <<>> =>
          /\ FramesCover(RawLen(raw))
          /\ Len(raw) = Len(objs) + 2
          /\ raw[1] = <<"PACK", 2, Len(objs)>>
          /\ \A i \in DOMAIN objs : raw[i + 1] = zlib(objs[i])
          /\ raw[Len(raw)] = <<"sha", SubSeq(raw, 1, Len(raw) - 1)>>

\* C18 happens: the pack of all ten objects went out in two channel-1 frames.
C18_TwoFramesSent ==
    /\ up_pc = "Done"
    /\ request.sideband
    /\ Len(objs) = 10
    /\ Len(PackFrames) = 2

\* Spawned compression tasks that have not run to their end.
InFlight == { i \in Range(handles) : i \notin finished }

\* C19: never more than 8 compression tasks are in flight, and whatever the
\* order in which the tasks end, the compressed objects are collected, and
\* written into the pack, in the order of the selected list.
C19_BoundedPoolFixedOrder ==
    /\ Cardinality(InFlight) <= 8
    /\ Len(compressed_list) <= Len(objs)
    /\ \A i \in DOMAIN compressed_list :
          compressed_list[i] = <<objs[i], zlib(objs[i])>>
    /\ raw # <<>> => \A i \in DOMAIN objs : raw[i + 1] = zlib(objs[i])

\* C19 happens: of a batch of eight tasks the last spawned ended first, the
\* other seven still running and none awaited.
C19_LastTaskEndsFirst ==
    /\ up_pc = "Compressing"
    /\ Len(objs) = 10
    /\ handles = <<1, 2, 3, 4, 5, 6, 7, 8>>
    /\ finished = {8}
    /\ Cardinality(InFlight) = 7

Negotiated ==
    "side-band" \in request.capabilities \/ "side-band-64k" \in request.capabilities

\* C20: once side-band or side-band-64k was negotiated every pack byte goes
\* out in a channel-1 frame of at most 999 (side-band) or 65515
\* (side-band-64k) payload bytes; pack bytes go out unframed only when
\* neither was negotiated.
C20_FramesWithinNegotiatedLimit ==
    \A i \in DOMAIN PackFrames :
        /\ Negotiated =>
              /\ PackFrames[i].kind = "band"
              /\ PackFrames[i].band = 1
              /\ PackFrames[i].to - PackFrames[i].from <=
                    (IF "side-band-64k" \in request.capabilities THEN 65515 ELSE 999)
        /\ PackFrames[i].kind = "raw" => ~Negotiated

(***************************************************************************)
(* Negotiation of a version 1 fetch.                                       *)
(***************************************************************************)
IsAck(f) == f.text = "ACK"
IsNak(f) == f.text = "NAK"
\* The hashes acknowledged, in the order of their frames.
Acked == [i \in 1..Len(SelectSeq(sent, IsAck)) |-> SelectSeq(sent, IsAck)[i].n]
\* The hashes of the have lines the ODB holds under some kind.
KnownHaves ==
    [i \in 1..Len(SelectSeq(request.haves, has_object)) |->
        SelectSeq(request.haves, has_object)[i][2]]
\* The first frame of the packfile part of the response.
IsPackfileFrame(f) == f.text = "packfile" \/ IsPackFrame(f)

not_adv_vars ==
    <<vars, odb_vars, ref_call, up_vars, delta_vars, pkt_vars, tree_vars,
      repo_vars, http_vars,
      rx_vars,
      st_vars,
      push_vars,
      trailer_vars>>

Protocols == {"Git", "SSH", "Http"}
Services == {"UploadPack", "ReceivePack", "UploadPackLs", "ReceivePackLs"}
Versions == {"V0", "V1", "V2", "Unknown"}
\* The refs collections of the repositories advertised.
RefStores ==
    { <<>>,
      InitRefs,
      InitRefs \o << RefItem(Dev, NewCommit, TRUE, FALSE, FALSE) >>,
      << RefItem(TagV1, NewTag, FALSE, TRUE, FALSE) >> \o InitRefs }

IsUpload(service) == service \in {"UploadPack", "UploadPackLs"}

\* send_pkt_line("# service=<svc>\n")
http_advertise_header(t) ==
    << Pkt(IF IsUpload(t.service) THEN "# service=git-upload-pack"
           ELSE "# service=git-receive-pack", 0) >>

\* The pkt-line "version <n>\n".
write_version(t) ==
    << Pkt(CASE t.version = "V0" -> "version 0"
             [] t.version = "V1" -> "version 1"
             [] t.version = "V2" -> "version 2"
             [] OTHER -> "version unknown", 0) >>

\* MongoRefsManager::head: the stored item with is_head, or a HEAD of the
\* zero hash.
head(store) ==
    IF \E i \in DOMAIN store : store[i].is_head
    THEN store[CHOOSE i \in DOMAIN store : store[i].is_head]
    ELSE RefItem(HeadRef, ZeroHash, FALSE, FALSE, TRUE)

\* "<head.value> HEAD\0<capabilities>\n": n is the value's number.
write_refs_head_info(t) == << Pkt("HEAD", head(t.refs).value[2]) >>

\* One pkt-line "<value> <name>" per stored ref: n is the ref's position.
write_all_refs(t) == [i \in DOMAIN t.refs |-> Pkt("ref", i)]

write_advertise_v2 ==
    << Pkt("agent=git/1.51", 0), Pkt("ls-refs=unborn", 0),
       Pkt("fetch=shallow filter wait-for-done", 0), Pkt("server-option", 0),
       Pkt("object-format", 0), Flush >>

\* `self.call_back.send(Bytes::new())`: a message of no bytes, which ends
\* the HTTP handler's collecting loop.
EndOfResponse == RawBytes(0, 0)

\* Transaction::advertise_refs.  `failing` is the database call that fails,
\* if one does.
advertise_refs ==
    /\ \E protocol \in Protocols, service \in Services, version \in Versions,
          store \in RefStores, failing \in {"none", "head", "refs"} :
          LET t == [protocol |-> protocol, service |-> service,
                    version |-> version, refs |-> store]
              header == IF protocol = "Http" THEN http_advertise_header(t) ELSE <<>>
          IN  /\ adv_txn' = t
              /\ IF IsUpload(service) /\ version = "V2"
                 THEN /\ adv_sent' = header \o << Flush >> \o write_version(t)
                                       \o write_advertise_v2 \o << EndOfResponse >>
                      /\ adv_result' = "Ok"
                 ELSE CASE failing = "head" ->
                             /\ adv_sent' = header \o write_version(t) \o << Flush >>
                             /\ adv_result' = "MongodbError"
                        [] failing = "refs" ->
                             /\ adv_sent' = header \o write_version(t) \o << Flush >>
                                              \o write_refs_head_info(t)
                             /\ adv_result' = "MongodbError"
                        [] OTHER ->
                             /\ adv_sent' = header \o write_version(t) \o << Flush >>
                                              \o write_refs_head_info(t)
                                              \o write_all_refs(t)
                                              \o << Flush, EndOfResponse >>
                             /\ adv_result' = "Ok"
    /\ UNCHANGED not_adv_vars

NextAdvertise == advertise_refs

SpecAdvertise == Init /\ [][NextAdvertise]_all_vars

\* The frames that reach the client: the messages of at least one byte.
IsFrame(f) == f # EndOfResponse
Frames == SelectSeq(adv_sent, IsFrame)

\* C22: the frames of a version 1 HTTP ref advertisement are, in order and
\* with no other frame in between, the "# service=<svc>" pkt-line, a flush,
\* the HEAD line with the capability list, one pkt-line per ref, and a
\* final flush.
C22_V1HttpAdvertisement ==
    adv_txn.protocol = "Http" /\ adv_txn.version = "V1" /\ adv_result = "Ok" =>
        Frames = http_advertise_header(adv_txn) \o << Flush >>
                    \o write_refs_head_info(adv_txn) \o write_all_refs(adv_txn)
                    \o << Flush >>

(***************************************************************************)
(* Receive-pack: the version of the pack header.                           *)
(***************************************************************************)
HeaderRead == pack_version # -1
\* Nothing was staged, committed or written to the refs.
Untouched == txn = EmptyOdb /\ odb = InitOdb /\ refs = InitRefs
\* parse_receive_head returned without reading an object or sending a frame.
PackIgnored == pc = "Done" /\ pack_count = 0 /\ events = <<>>

\* C23: parse_receive_head accepts the pack versions 2 and 3 and goes on to
\* process the pack; with every other version the request fails with an
\* unsupported-version error and nothing is staged, committed or written to
\* the refs.
C23_PackVersions ==
    HeaderRead =>
        IF pack_version \in {2, 3}
        THEN ~(PackIgnored /\ result = "Ok")
        ELSE /\ Untouched
             /\ pc = "Done" => result = "UnsupportedVersion"

(***************************************************************************)
(* The delta codec of receive-pack:                                        *)
(*   RefDelta::apply_git_delta, RefDelta::read_varint                      *)
(*                                       src/src/objects/ref_delta.rs      *)
(* Bytes are the numbers 0..255, byte strings are sequences of them.       *)
(***************************************************************************)
not_delta_vars ==
    <<vars, odb_vars, ref_call, up_vars, adv_vars, pkt_vars, tree_vars,
      repo_vars, http_vars,
      rx_vars,
      st_vars,
      push_vars,
      trailer_vars>>

MaxDelta == 5
\* Delta bytes: the opcode 0, inserts of 1 to 3 bytes, a copy with a size
\* byte (0x90) and a copy with an offset byte and a size byte (0x91).
DeltaBytes == {0, 1, 2, 3, 144, 145}
Bases == {<<>>, <<7>>, <<7, 8>>, <<7, 8, 9>>}
Deltas == SeqsUpTo(DeltaBytes, MaxDelta)

\* The delta codec is handed a base and a delta.
InitDelta ==
    /\ InitCore
    /\ TrailerIdle
    /\ PushIdle
    /\ StreamIdle
    /\ RxIdle
    /\ PktIdle
    /\ TreeIdle
    /\ delta_base \in Bases
    /\ delta_data \in Deltas
    /\ delta_out = NotRun

\* (n >> k) & 1
Bit(n, k) == (n \div (2 ^ k)) % 2

\* read_varint: seven bits a byte, least significant first, until a byte
\* without the high bit; Err(UnexpectedEof) when the input ends before.
RECURSIVE read_varint(_, _, _)
read_varint(input, acc, shift) ==
    IF input = <<>>
    THEN [ok |-> FALSE, val |-> 0, rest |-> <<>>]
    ELSE LET byte == Head(input)
             r == acc + (byte % 128) * (2 ^ shift)
         IN  IF byte < 128 THEN [ok |-> TRUE, val |-> r, rest |-> Tail(input)]
             ELSE read_varint(Tail(input), r, shift + 7)

\* The flag bits of a copy opcode that are set, lowest first: each takes
\* the next byte of the delta.
CopyFlags(opcode) == SelectSeq(<<0, 1, 2, 3, 4, 5, 6>>, LAMBDA k : Bit(opcode, k) = 1)

RECURSIVE Sum(_, _)
Sum(f, S) == IF S = {} THEN 0
             ELSE LET x == CHOOSE y \in S : TRUE IN f[x] + Sum(f, S \ {x})

\* The body of `while !delta_reader.is_empty()`: indexing past the end of
\* delta_reader or of base is a panic.
RECURSIVE run_delta(_, _, _)
run_delta(base, reader, out) ==
    IF reader = <<>> THEN Ok(out)
    ELSE LET opcode == Head(reader)
             rest == Tail(reader)
         IN  IF opcode >= 128
             THEN LET flags == CopyFlags(opcode)
                      arg == [i \in DOMAIN flags |->
                                 IF i <= Len(rest) THEN rest[i] ELSE 0]
                      copy_offset ==
                          Sum([i \in DOMAIN flags |-> arg[i] * (256 ^ flags[i])],
                              { i \in DOMAIN flags : flags[i] < 4 })
                      size ==
                          Sum([i \in DOMAIN flags |->
                                  IF flags[i] >= 4 THEN arg[i] * (256 ^ (flags[i] - 4)) ELSE 0],
                              { i \in DOMAIN flags : flags[i] >= 4 })
                      copy_size == IF size = 0 THEN 65536 ELSE size
                  IN  IF Len(rest) < Len(flags) THEN Panic
                      ELSE IF copy_offset + copy_size > Len(base) THEN Panic
                      ELSE run_delta(base, SubSeq(rest, Len(flags) + 1, Len(rest)),
                                     out \o SubSeq(base, copy_offset + 1,
                                                   copy_offset + copy_size))
             ELSE IF opcode # 0
             THEN IF Len(rest) < opcode THEN Panic
                  ELSE run_delta(base, SubSeq(rest, opcode + 1, Len(rest)),
                                 out \o SubSeq(rest, 1, opcode))
             ELSE Error("DeltaInvalidInstruction")

apply_git_delta(base, delta) ==
    LET base_size == read_varint(delta, 0, 0)
        result_size == read_varint(base_size.rest, 0, 0)
        run == run_delta(base, result_size.rest, <<>>)
    IN  IF ~base_size.ok \/ ~result_size.ok THEN Error("UnexpectedEof")
        ELSE IF base_size.val # Len(base) THEN Error("DeltaBaseSizeMismatch")
        ELSE IF run.tag = "Ok" /\ Len(run.bytes) # result_size.val
             THEN Error("DeltaResultSizeMismatch")
        ELSE run

ApplyGitDelta ==
    /\ delta_out = NotRun
    /\ delta_out' = apply_git_delta(delta_base, delta_data)
    /\ UNCHANGED <<delta_base, delta_data, not_delta_vars>>

NextDelta == ApplyGitDelta

SpecDelta == InitDelta /\ [][NextDelta]_all_vars

\* C24: apply_git_delta is total: for every base and every delta it returns
\* Ok(result) or an Err value and never aborts, and the base is unchanged.
C24_DeltaCodecTotal ==
    delta_out # NotRun =>
        /\ delta_out.tag \in {"Ok", "Err"}
        /\ delta_base \in Bases

(***************************************************************************)
(* Receive-pack: the side-band channel byte of the frames sent.            *)
(***************************************************************************)
\* The frames of the report, in the order sent ("Progress:" frames are in
\* `progress`).
IsReportFrame(e) == e.op \in {"send_unpack_ok", "send_ok", "send_flush"}
ReportFrames == SelectSeq(events, IsReportFrame)

\* C25: the frames receive-pack sends carry a side-band channel byte exactly
\* when side-band or side-band-64k was negotiated: then progress lines go
\* on channel 2 and "unpack ok" on channel 1; otherwise no frame (progress,
\* "unpack ok", "ok <ref>", the final flush) holds a channel byte.
C25_ChannelByteIffNegotiated ==
    IF sidebend
    THEN /\ progress \subseteq {2}
         /\ \A i \in DOMAIN ReportFrames :
               /\ ReportFrames[i].op = "send_unpack_ok" => ReportFrames[i].band = 1
               /\ ReportFrames[i].op = "send_ok" => ReportFrames[i].band # 0
    ELSE /\ progress \subseteq {0}
         /\ \A i \in DOMAIN ReportFrames : ReportFrames[i].band = 0

(***************************************************************************)
(* pkt-line framing: write_pkt_line                  src/src/lib.rs        *)
(***************************************************************************)
not_pkt_vars ==
    <<vars, odb_vars, ref_call, up_vars, adv_vars, delta_vars, tree_vars,
      repo_vars, http_vars,
      rx_vars,
      st_vars,
      push_vars,
      trailer_vars>>

MaxShort == 20
\* The lengths of the strings framed: short ones, and the lengths around
\* the largest pkt-line.
DataLens == (0..MaxShort) \cup ((MAX_PKT_LINE - 8)..(MAX_PKT_LINE + 14))
PktInputs == { Str(n, b) : n \in DataLens, b \in {10, 97} }

\* write_pkt_line is handed a string.
InitPkt ==
    /\ InitCore
    /\ TrailerIdle
    /\ PushIdle
    /\ StreamIdle
    /\ RxIdle
    /\ DeltaIdle
    /\ TreeIdle
    /\ pkt_data \in PktInputs
    /\ pkt_out = NoBuf

HexDigit == <<"0", "1", "2", "3", "4", "5", "6", "7", "8", "9", "a", "b", "c", "d", "e", "f">>

\* The lowercase hexadecimal digits of n, most significant first.
RECURSIVE LowerHex(_)
LowerHex(n) ==
    IF n < 16 THEN << HexDigit[n + 1] >>
    ELSE Append(LowerHex(n \div 16), HexDigit[(n % 16) + 1])

\* format!("{:04x}", n): zero-padded to four digits, longer when n needs
\* more.
format_04x(n) ==
    LET d == LowerHex(n)
    IN  IF Len(d) >= 4 THEN d ELSE [i \in 1..(4 - Len(d)) |-> "0"] \o d

write_pkt_line(data) ==
    IF data.len = 0 THEN Buf(<<"0", "0", "0", "0">>, Str(0, 0))
    ELSE Buf(format_04x(data.len + 4), data)

WritePktLine ==
    /\ pkt_out = NoBuf
    /\ pkt_out' = write_pkt_line(pkt_data)
    /\ UNCHANGED <<pkt_data, not_pkt_vars>>

NextPkt == WritePktLine

SpecPkt == InitPkt /\ [][NextPkt]_all_vars

\* The number a string of hexadecimal digits spells.
RECURSIVE HexValue(_)
HexValue(d) ==
    IF d = <<>> THEN 0
    ELSE 16 * HexValue(SubSeq(d, 1, Len(d) - 1))
            + (CHOOSE v \in 0..15 : HexDigit[v + 1] = d[Len(d)])

\* C26: write_pkt_line returns the flush marker "0000" for empty data and
\* otherwise four lowercase hexadecimal digits spelling len(data) + 4
\* followed by data unchanged; every frame it makes has a length prefix of
\* four characters that equals the frame's total length, and a payload of at
\* most 65516 bytes.
C26_PktLineFrame ==
    pkt_out # NoBuf =>
        IF pkt_data.len = 0
        THEN pkt_out = Buf(<<"0", "0", "0", "0">>, Str(0, 0))
        ELSE /\ Len(pkt_out.prefix) = 4
             /\ HexValue(pkt_out.prefix) = pkt_data.len + 4
             /\ pkt_out.payload = pkt_data
             /\ HexValue(pkt_out.prefix) = Len(pkt_out.prefix) + pkt_out.payload.len
             /\ pkt_out.payload.len <= 65516

(***************************************************************************)
(* Receive-pack: the classification of the commands.                       *)
(***************************************************************************)
\* C27: for every parsed command, is_create holds iff old is all zeros,
\* is_delete holds iff new is all zeros, and is_update holds iff both old
\* and new are nonzero: a create is not classified as an update.
C27_Classification ==
    \A i \in DOMAIN ref_upload :
        /\ is_create(ref_upload[i]) <=> is_zero(ref_upload[i].old)
        /\ is_delete(ref_upload[i]) <=> is_zero(ref_upload[i].new)
        /\ is_update(ref_upload[i]) <=>
              (~is_zero(ref_upload[i].old) /\ ~is_zero(ref_upload[i].new))

(***************************************************************************)
(* Tree objects: Tree::parse, Tree::get_data, TreeItem::to_data,           *)
(* TreeItemMode                                  src/src/objects/tree.rs   *)
(* A payload is the sequence of its entries "<mode> <name>\0<raw id>";     *)
(* bytes are the numbers 0..255.                                           *)
(***************************************************************************)
not_tree_vars ==
    <<vars, odb_vars, ref_call, up_vars, adv_vars, delta_vars, pkt_vars,
      repo_vars, http_vars,
      rx_vars,
      st_vars,
      push_vars,
      trailer_vars>>

MaxEntries == 2
\* The mode spellings of the entries: the eight Tree::parse knows and one
\* it does not.
ModeSpellings ==
    {"040000", "40000", "100644", "100664", "100640", "100755", "120000", "160000",
     "100600"}

\* The bytes of the strings of the model.
Ascii(str) ==
    CASE str = "040000" -> <<48, 52, 48, 48, 48, 48>>
      [] str = "40000" -> <<52, 48, 48, 48, 48>>
      [] str = "100644" -> <<49, 48, 48, 54, 52, 52>>
      [] str = "100664" -> <<49, 48, 48, 54, 54, 52>>
      [] str = "100640" -> <<49, 48, 48, 54, 52, 48>>
      [] str = "100755" -> <<49, 48, 48, 55, 53, 53>>
      [] str = "120000" -> <<49, 50, 48, 48, 48, 48>>
      [] str = "160000" -> <<49, 54, 48, 48, 48, 48>>
      [] str = "100600" -> <<49, 48, 48, 54, 48, 48>>
      [] str = "lib" -> <<108, 105, 98>>
      [] OTHER -> <<97>>                \* "a"

HashVersionNames == {"Sha1", "Sha256"}
\* HashVersion::len
len(hash_version) == IF hash_version = "Sha1" THEN 20 ELSE 32

\* A raw hash of the version: every byte is `byte`.
RawHash(hash_version, byte) == [i \in 1..len(hash_version) |-> byte]

\* An entry "<mode> <name>\0<raw id>": the mode as the payload spells it
\* (after parsing: the TreeItemMode), the name, the bytes of the id.
Entry(mode, name, id) == [mode |-> mode, name |-> name, id |-> id]
Entries(hash_version) ==
    { Entry(m, n, RawHash(hash_version, b)) :
        m \in ModeSpellings, n \in {"a", "lib"}, b \in {7, 32} }
TreePayloads(hash_version) == SeqsUpTo(Entries(hash_version), MaxEntries)

\* The bytes of a payload.
RECURSIVE Encode(_)
Encode(entries) ==
    IF entries = <<>> THEN <<>>
    ELSE Ascii(Head(entries).mode) \o <<32>> \o Ascii(Head(entries).name) \o <<0>>
            \o Head(entries).id \o Encode(Tail(entries))

\* Tree::parse is handed a payload of a repository of either hash version.
InitTree ==
    /\ InitCore
    /\ TrailerIdle
    /\ PushIdle
    /\ StreamIdle
    /\ RxIdle
    /\ DeltaIdle
    /\ PktIdle
    /\ tree_hash_version \in HashVersionNames
    /\ tree_input \in TreePayloads(tree_hash_version)
    /\ tree_out = NoTree

\* TreeItemMode::tree_item_type_from_bytes
tree_item_type_from_bytes(mode) ==
    CASE mode \in {Ascii("040000"), Ascii("40000")} -> "Tree"
      [] mode \in {Ascii("100644"), Ascii("100664"), Ascii("100640")} -> "Blob"
      [] mode = Ascii("100755") -> "BlobExecutable"
      [] mode = Ascii("120000") -> "Link"
      [] mode = Ascii("160000") -> "Commit"
      [] OTHER -> "InvalidTreeItem"

\* TreeItemMode::to_bytes
to_bytes(mode) ==
    CASE mode = "Blob" -> Ascii("100644")
      [] mode = "BlobExecutable" -> Ascii("100755")
      [] mode = "Link" -> Ascii("120000")
      [] mode = "Tree" -> Ascii("40000")
      [] OTHER -> Ascii("160000")

\* TreeItem::to_data: mode, space, name, NUL, the raw id.
to_data(item) == to_bytes(item.mode) \o <<32>> \o item.name \o <<0>> \o item.id

\* Tree::get_data
RECURSIVE get_data(_)
get_data(tree_items) ==
    IF tree_items = <<>> THEN <<>>
    ELSE to_data(Head(tree_items)) \o get_data(Tail(tree_items))

\* The id of a tree: the hash of "tree <len>\0<data>".
TreeId(input, hash_version) == Hash(<<hash_version, "tree", Len(input), input>>)

\* input[pos..].iter().position(|&b| b == byte), -1 for None.
Position(input, pos, byte) ==
    IF \E i \in (pos + 1)..Len(input) : input[i] = byte
    THEN (CHOOSE i \in (pos + 1)..Len(input) :
            /\ input[i] = byte
            /\ \A j \in (pos + 1)..(i - 1) : input[j] # byte) - pos - 1
    ELSE -1

\* String::from_utf8 succeeds: the payloads hold no multi-byte sequence.
Utf8(bytes) == \A i \in DOMAIN bytes : bytes[i] < 128

\* Err(GitInnerError::InvalidTreeItem(..))
InvalidTreeItem == TreeResult("Err", Hash(<<>>), <<>>)

\* The loop of Tree::parse from `pos` on, and what follows it.
RECURSIVE parse_from(_, _, _, _)
parse_from(input, hash_version, pos, tree_items) ==
    IF pos >= Len(input)
    THEN TreeResult("Ok", TreeId(input, hash_version), tree_items)
    ELSE LET space_pos == Position(input, pos, 32)
             mode == tree_item_type_from_bytes(SubSeq(input, pos + 1, pos + space_pos))
             name_at == pos + space_pos + 1
             null_pos == Position(input, name_at, 0)
             name_bytes == SubSeq(input, name_at + 1, name_at + null_pos)
             id_at == name_at + null_pos + 1
         IN  IF space_pos = -1 THEN InvalidTreeItem
             ELSE IF mode = "InvalidTreeItem" THEN InvalidTreeItem
             ELSE IF null_pos = -1 THEN InvalidTreeItem
             ELSE IF ~Utf8(name_bytes) THEN InvalidTreeItem
             ELSE IF id_at + 20 > Len(input) THEN InvalidTreeItem
             ELSE parse_from(input, hash_version, id_at + 20,
                             Append(tree_items,
                                    Entry(mode, name_bytes,
                                          SubSeq(input, id_at + 1, id_at + 20))))

\* Tree::parse
parse(input, hash_version) == parse_from(input, hash_version, 0, <<>>)

ParseTree ==
    /\ tree_out = NoTree
    /\ tree_out' = parse(Encode(tree_input), tree_hash_version)
    /\ UNCHANGED <<tree_input, tree_hash_version, not_tree_vars>>

NextTree == ParseTree

SpecTree == InitTree /\ [][NextTree]_all_vars

\* C28: for every payload Tree::parse accepts, the tree's get_data hashed as
\* "tree <len>\0<data>" is the id Tree::parse computed, whatever accepted
\* spelling the payload uses for its modes.
C28_TreeRoundTrip ==
    tree_out.tag = "Ok" =>
        TreeId(get_data(tree_out.tree_items), tree_hash_version) = tree_out.id

\* Every mode of the payload is one Tree::parse knows.
WellFormed(entries) ==
    \A i \in DOMAIN entries :
        tree_item_type_from_bytes(Ascii(entries[i].mode)) # "InvalidTreeItem"

\* The tree items a payload encodes.
Encoded(entries) ==
    [i \in DOMAIN entries |->
        Entry(tree_item_type_from_bytes(Ascii(entries[i].mode)),
              Ascii(entries[i].name), entries[i].id)]

\* C33: Tree::parse reads the raw hash of each entry with the width of the
\* repository's hash version (20 bytes under SHA-1, 32 under SHA-256): every
\* well-formed payload, the SHA-256 ones included, parses into entries whose
\* mode, name and id are the encoded ones.
C33_ParsesAtHashWidth ==
    tree_out # NoTree /\ WellFormed(tree_input) =>
        /\ tree_out.tag = "Ok"
        /\ tree_out.tree_items = Encoded(tree_input)

(***************************************************************************)
(* Repositories:                                                           *)
(*   AppCore::init_repository          src/src/repository/init.rs          *)
(*   MongoRepoManager::create_repo, MongoRepoManager::repo                 *)
(*                                     src/src/serve/mongo.rs              *)
(* All repositories are of one namespace.                                  *)
(***************************************************************************)
not_repo_vars ==
    <<vars, odb_vars, ref_call, up_vars, adv_vars, delta_vars, pkt_vars, tree_vars,
      http_vars,
      rx_vars,
      st_vars,
      push_vars,
      trailer_vars>>

MaxRepos == 2
RepoNames == {"a", "b"}
\* The hash_version values of the requests.
HashVersions == {0, 1, 2, 256}

\* MongoRepository, of which name and hash_version are kept.
MongoRepository(name, hash_version) == [name |-> name, hash_version |-> hash_version]

\* init_repository's `match req.hash_version`
StoredVersion(hash_version) == IF hash_version = 2 THEN 2 ELSE 1

\* AppCore::init_repository, create_repo included.
init_repository ==
    /\ Len(repositories) < MaxRepos
    /\ \E name \in RepoNames, hash_version \in HashVersions :
          /\ repo_call' = [op |-> "init_repository", name |-> name]
          /\ \/ /\ repositories' =
                      Append(repositories, MongoRepository(name, StoredVersion(hash_version)))
                /\ requested' = Append(requested, hash_version)
                /\ repo_result' = RepoResult("Ok", "")
             \/ /\ repo_result' = RepoResult("MongodbError", "")    \* count or insert failed
                /\ UNCHANGED <<repositories, requested>>
    /\ UNCHANGED not_repo_vars

\* find_one: the first document of the name, 0 when there is none.
FindRepo(name) ==
    IF \E i \in DOMAIN repositories : repositories[i].name = name
    THEN CHOOSE i \in DOMAIN repositories :
            /\ repositories[i].name = name
            /\ \A j \in 1..(i - 1) : repositories[j].name # name
    ELSE 0

\* MongoRepoManager::repo
repo ==
    /\ \E name \in RepoNames :
          /\ repo_call' = [op |-> "repo", name |-> name]
          /\ \/ repo_result' =
                   IF FindRepo(name) = 0 THEN RepoResult("ObjectNotFound", "")
                   ELSE CASE repositories[FindRepo(name)].hash_version = 1 ->
                                RepoResult("Ok", "Sha1")
                          [] repositories[FindRepo(name)].hash_version = 256 ->
                                RepoResult("Ok", "Sha256")
                          [] OTHER -> RepoResult("HashVersionError", "")
             \/ repo_result' = RepoResult("MongodbError", "")       \* find_one failed
    /\ UNCHANGED <<repositories, requested, not_repo_vars>>

NextRepo ==
    \/ init_repository
    \/ repo

SpecRepo == Init /\ [][NextRepo]_all_vars

\* C29: a repository created through init_repository, whatever hash_version
\* was requested, is opened by repo(namespace, name) without a
\* HashVersionError; it is SHA-1 when 1 was requested and SHA-256 when 256
\* was requested (a failure of the database call itself apart).
C29_CreatedRepositoryOpens ==
    repo_call.op = "repo" /\ FindRepo(repo_call.name) # 0 =>
        \/ repo_result.tag = "MongodbError"
        \/ /\ repo_result.tag = "Ok"
           /\ requested[FindRepo(repo_call.name)] = 1 => repo_result.hash_version = "Sha1"
           /\ requested[FindRepo(repo_call.name)] = 256 => repo_result.hash_version = "Sha256"

(***************************************************************************)
(* The HTTP endpoints:                                                     *)
(*   refs          GET  info/refs          src/src/http/refs.rs            *)
(*   upload_pack   POST git-upload-pack    src/src/http/upload.rs          *)
(*   receive_pack  POST git-receive-pack   src/src/http/receive.rs         *)
(***************************************************************************)
not_http_vars ==
    <<vars, odb_vars, ref_call, up_vars, adv_vars, delta_vars, pkt_vars, tree_vars,
      repo_vars,
      rx_vars,
      st_vars,
      push_vars,
      trailer_vars>>

\* What repo_store.repo finds: no repository, a public or a private one.
RepoKinds == {"missing", "public", "private"}
\* The Authorization header: none, one that does not authenticate, or one
\* that authenticates with an access level.
Credentials == {"none", "bad", "Read", "Write", "Admin"}
\* The Git-Protocol header.
ProtocolHeaders == {"none", "version=1", "version=2"}

\* What Authorization::parse and auth.authenticate make of the header.
authenticate(credentials) ==
    IF credentials \in {"Read", "Write", "Admin"}
    THEN [ok |-> TRUE, level |-> credentials]
    ELSE [ok |-> FALSE, level |-> "none"]

Unauthorized == HttpResponse(401, "none")
Forbidden == HttpResponse(403, "none")
NotFound == HttpResponse(404, "none")

\* http::refs::refs: no credentials are read.
refs_endpoint ==
    /\ \E auth \in BOOLEAN, r \in RepoKinds, c \in Credentials, h \in ProtocolHeaders :
          /\ http_req' = [endpoint |-> "info/refs", auth |-> auth, repo |-> r,
                          credentials |-> c, header |-> h]
          /\ http_resp' = IF r = "missing" THEN NotFound
                          ELSE HttpResponse(200, "advertise_refs")
    /\ UNCHANGED not_http_vars

\* http::upload::upload_pack
upload_pack_endpoint ==
    /\ \E auth \in BOOLEAN, r \in RepoKinds, c \in Credentials, h \in ProtocolHeaders :
          /\ http_req' = [endpoint |-> "git-upload-pack", auth |-> auth, repo |-> r,
                          credentials |-> c, header |-> h]
          /\ http_resp' =
                IF r = "missing" THEN NotFound
                ELSE IF auth /\ r = "private" /\ ~authenticate(c).ok THEN Unauthorized
                ELSE HttpResponse(200, "upload_pack")
    /\ UNCHANGED not_http_vars

\* http::receive::receive_pack
receive_pack_endpoint ==
    /\ \E auth \in BOOLEAN, r \in RepoKinds, c \in Credentials, h \in ProtocolHeaders :
          /\ http_req' = [endpoint |-> "git-receive-pack", auth |-> auth, repo |-> r,
                          credentials |-> c, header |-> h]
          /\ http_resp' =
                IF r = "missing" THEN NotFound
                ELSE IF auth /\ ~authenticate(c).ok THEN Unauthorized
                ELSE IF auth /\ authenticate(c).level = "Read" THEN Forbidden
                ELSE HttpResponse(200, "receive_pack")
    /\ UNCHANGED not_http_vars

NextHttp ==
    \/ refs_endpoint
    \/ upload_pack_endpoint
    \/ receive_pack_endpoint

SpecHttp == Init /\ [][NextHttp]_all_vars

\* The request ran a Transaction: the protocol layer was entered and its
\* output is the body of the response.
Entered == http_resp.transaction # "none"

\* C30: with an authenticator configured and a private repository, none of
\* the three endpoints enters the protocol layer or returns repository data
\* unless the request's credentials authenticate; git-receive-pack also
\* answers 403, without entering the protocol layer, when the access level
\* is Read.
C30_PrivateNeedsCredentials ==
    http_req.auth /\ http_req.repo = "private" =>
        /\ Entered => authenticate(http_req.credentials).ok
        /\ http_req.endpoint = "git-receive-pack" /\ http_req.credentials = "Read" =>
              http_resp = Forbidden

(***************************************************************************)
(* Delete commands in the ref loop of process_receive_pack.                *)
(***************************************************************************)
\* The ref loop is past command i.
Processed(i) ==
    \/ pc \in {"Reporting", "Done"}
    \/ pc = "UpdatingRefs" /\ idx > i

\* 'ok <ref>' was sent for the ref.
OkSentFor(name) == \E e \in Sent("send_ok") : events[e].ref = name
\* 'ng <ref> ...' was sent for the ref.
NgSentFor(name) == \E e \in Sent("send_ng") : events[e].ref = name

\* C31: a delete command (new = zero) is applied through del_refs: for the
\* default branch the client is sent 'ng <ref> DefaultBranchCannotBeDeleted'
\* and the ref remains; for any other ref the ref no longer exists and
\* 'ok <ref>' is sent; 'ok <ref>' is never sent for a delete command whose
\* ref still exists.
C31_DeleteThroughDelRefs ==
    \A i \in DOMAIN ref_upload :
        is_delete(ref_upload[i]) /\ Processed(i) =>
            /\ Called({"del_refs"}) # {}
            /\ IF ref_upload[i].ref_name = DefaultRef
               THEN NgSentFor(ref_upload[i].ref_name) /\ RefExists(ref_upload[i].ref_name)
               ELSE OkSentFor(ref_upload[i].ref_name) /\ ~RefExists(ref_upload[i].ref_name)
            /\ RefExists(ref_upload[i].ref_name) => ~OkSentFor(ref_upload[i].ref_name)

(***************************************************************************)
(* ofs-delta: the capability lists of GitCapability                        *)
(*                                          src/src/capability/enums.rs    *)
(* and the ofs-delta arm of process_receive_pack.                          *)
(***************************************************************************)
\* GitCapability::basic
basic == << "side-band", "side-band-64k", "agent=git-inner", "report-status" >>
\* GitCapability::upload
upload ==
    basic \o << "multi_ack", "multi_ack_detailed", "thin-pack", "no-done",
                "include-tag", "shallow" >>
\* GitCapability::receive
receive == basic \o << "atomic", "push-options", "delete-refs" >>

\* The capability list write_refs_head_info puts after "HEAD\0".
head_capabilities(service) ==
    basic \o (IF IsUpload(service) THEN upload ELSE receive)
          \o << "object-format" >>

Advertises(service, cap) ==
    \E i \in DOMAIN head_capabilities(service) : head_capabilities(service)[i] = cap

\* The pack that follows the commands holds an ofs-delta object.
HasOfsDelta == \E o \in DOMAIN pack : pack[o].type_id = 6

\* C32: 'ofs-delta' is advertised for neither service, and a received pack
\* that holds an ofs-delta object fails with UnsupportedOfsDelta before
\* txn.commit(): no object becomes durable and no ref is updated.
C32_OfsDeltaRejected ==
    /\ \A service \in Services : ~Advertises(service, "ofs-delta")
    /\ HasOfsDelta =>
          /\ ~CommitEntered
          /\ odb = InitOdb
          /\ refs = InitRefs
          /\ Ended => result = "UnsupportedOfsDelta"

(***************************************************************************)
(* The request body of a push:                                             *)
(*   Transaction::receive_pack, Transaction::parse_receive_request         *)
(*                               src/src/transaction/receive/mod.rs        *)
(*   ReceiveCommand::from_pkt_line                                         *)
(*                               src/src/transaction/receive/command.rs    *)
(* A byte is a one-character string (SP, NUL and the bytes of the pack     *)
(* header have names); the transport delivers the body in chunks.          *)
(***************************************************************************)
not_rx_vars ==
    <<vars, odb_vars, ref_call, up_vars, adv_vars, delta_vars, pkt_vars, tree_vars,
      repo_vars, http_vars,
      st_vars,
      push_vars,
      trailer_vars>>

\* Most places at which the transport cuts one request body.
MaxCuts == 2

SP == " "
NUL == "NUL"
\* The byte 0x02.
STX == "STX"

Rep(byte, n) == [i \in 1..n |-> byte]
PACK == <<"P", "A", "C", "K">>
FlushPkt == <<"0", "0", "0", "0">>
ZeroId == Rep("0", 40)
OldId == Rep("a", 40)
NewId == Rep("b", 40)

\* The pkt-line of a command: "<old> SP <new> SP <ref-name>".
CommandLine(old, new, name) ==
    format_04x(4 + Len(old) + 1 + Len(new) + 1 + Len(name))
        \o old \o <<SP>> \o new \o <<SP>> \o name

\* The twelve bytes of the header of a version 2 pack of no object.
PackHeader == PACK \o <<NUL, NUL, NUL, STX>> \o <<NUL, NUL, NUL, NUL>>

\* The request bodies: an update, a create, and a create of a branch whose
\* name holds the letters PACK; each a command, a flush and the pack.
Requests ==
    { CommandLine(OldId, NewId, <<"r", "/", "m">>) \o FlushPkt \o PackHeader,
      CommandLine(ZeroId, NewId, <<"r", "/", "d">>) \o FlushPkt \o PackHeader,
      CommandLine(ZeroId, NewId, <<"r", "/", "P", "A", "C", "K">>) \o FlushPkt \o PackHeader }

\* The sets of at most k places among 1..n.
RECURSIVE CutSets(_, _)
CutSets(n, k) ==
    IF k = 0 THEN {{}}
    ELSE CutSets(n, k - 1) \cup { s \cup {c} : s \in CutSets(n, k - 1), c \in 1..n }

\* The chunks of `bytes` when the transport cuts after each place of `cuts`.
RECURSIVE Split(_, _)
Split(bytes, cuts) ==
    IF cuts = {} THEN <<bytes>>
    ELSE LET c == CHOOSE c \in cuts : \A d \in cuts : c <= d
         IN  <<SubSeq(bytes, 1, c)>>
                \o Split(SubSeq(bytes, c + 1, Len(bytes)), { d - c : d \in cuts \ {c} })

RECURSIVE Concat(_)
Concat(chunks) ==
    IF chunks = <<>> THEN <<>> ELSE Head(chunks) \o Concat(Tail(chunks))

\* One push arrives, cut at up to MaxCuts places.
InitRx ==
    /\ InitCore
    /\ TrailerIdle
    /\ PushIdle
    /\ StreamIdle
    /\ DeltaIdle
    /\ PktIdle
    /\ TreeIdle
    /\ rx_sent \in Requests
    /\ rx_stream \in { Split(rx_sent, cuts) : cuts \in CutSets(Len(rx_sent) - 1, MaxCuts) }
    /\ rx_head = <<>>
    /\ rx_out = NotParsed

\* bytes.find(pattern): the offset of the first occurrence, -1 for None.
find(bytes, pattern) ==
    IF \E i \in 0..(Len(bytes) - Len(pattern)) :
          SubSeq(bytes, i + 1, i + Len(pattern)) = pattern
    THEN CHOOSE i \in 0..(Len(bytes) - Len(pattern)) :
            /\ SubSeq(bytes, i + 1, i + Len(pattern)) = pattern
            /\ \A j \in 0..(i - 1) : SubSeq(bytes, j + 1, j + Len(pattern)) # pattern
    ELSE -1

\* str.split(byte): the pieces between the occurrences of `byte`.
RECURSIVE split(_, _)
split(str, byte) ==
    IF find(str, <<byte>>) = -1 THEN <<str>>
    ELSE <<SubSeq(str, 1, find(str, <<byte>>))>>
            \o split(SubSeq(str, find(str, <<byte>>) + 2, Len(str)), byte)

\* str.trim(): without the white space at either end.
RECURSIVE trim(_)
trim(str) ==
    IF str # <<>> /\ str[1] \in {SP, "\n"} THEN trim(Tail(str))
    ELSE IF str # <<>> /\ str[Len(str)] \in {SP, "\n"} THEN trim(SubSeq(str, 1, Len(str) - 1))
    ELSE str

IsHex(str) == \A i \in DOMAIN str : \E v \in 1..16 : HexDigit[v] = str[i]
AllZero(str) == \A i \in DOMAIN str : str[i] = "0"

\* The hash a command spells: the zero hash when every character is '0',
\* else HashValue::from_str; <<>> stands for None.
command_hash(sha) ==
    IF AllZero(sha) THEN ZeroId
    ELSE IF Len(sha) \in {40, 64} /\ IsHex(sha) THEN sha
    ELSE <<>>

\* ref_name.replace("\0", "")
without_nul(str) == SelectSeq(str, LAMBDA b : b # NUL)

\* ReceiveCommand::from_pkt_line: <<command>> for Ok(Some(command)), <<>> for
\* Ok(None) and for Err, which parse_receive_request treats alike.  The
\* length prefix of the request bodies is at least 4.
from_pkt_line(line) ==
    IF Len(line) < 4 THEN <<>>
    ELSE IF ~IsHex(SubSeq(line, 1, 4)) THEN <<>>
    ELSE LET n == HexValue(SubSeq(line, 1, 4))
             parts == split(trim(SubSeq(line, 5, n)), SP)
         IN  IF n = 0 \/ Len(line) < n THEN <<>>
             ELSE IF Len(parts) < 3 THEN <<>>
             ELSE IF command_hash(parts[1]) = <<>> \/ command_hash(parts[2]) = <<>> THEN <<>>
             ELSE << Cmd(command_hash(parts[1]), command_hash(parts[2]),
                         without_nul(parts[3])) >>

\* Transaction::parse_receive_request over the lines of `head`: the commands
\* and the capability list, the one of the last line that holds a NUL.
RECURSIVE parse_lines(_, _, _)
parse_lines(lines, commands, caps) ==
    IF lines = <<>> THEN <<commands, caps>>
    ELSE LET str == Head(lines)
             at == find(str, <<NUL>>)
         IN  parse_lines(Tail(lines), commands \o from_pkt_line(str),
                         IF at = -1 THEN caps
                         ELSE split(SubSeq(str, at + 2, Len(str)), SP))

\* head.lines(): the pieces between line feeds, an empty last piece dropped.
lines_of(head_bytes) ==
    LET pieces == split(head_bytes, "\n")
    IN  IF pieces[Len(pieces)] = <<>> THEN SubSeq(pieces, 1, Len(pieces) - 1) ELSE pieces

parse_receive_request(head_bytes, rest) ==
    LET r == parse_lines(lines_of(head_bytes), <<>>, <<>>)
    IN  Parsed("Ok", r[1], r[2], Concat(rest))

\* One turn of the loop `while let Some(pack) = stream.next().await`, and
\* the calls that follow the loop when it is left.
receive_pack ==
    /\ rx_out = NotParsed
    /\ IF rx_stream = <<>>
       THEN /\ rx_out' = parse_receive_request(rx_head, <<>>)
            /\ UNCHANGED <<rx_stream, rx_head>>
       ELSE LET chunk == Head(rx_stream)
                at == find(chunk, PACK)
            IN  IF chunk = FlushPkt
                THEN /\ rx_stream' = Tail(rx_stream)
                     /\ UNCHANGED <<rx_head, rx_out>>
                ELSE IF at # -1
                THEN /\ rx_head' = rx_head \o SubSeq(chunk, 1, at)
                     /\ rx_stream' = <<SubSeq(chunk, at + 1, Len(chunk))>> \o Tail(rx_stream)
                     /\ rx_out' = parse_receive_request(rx_head', rx_stream')
                ELSE /\ rx_head' = rx_head \o chunk
                     /\ rx_stream' = Tail(rx_stream)
                     /\ UNCHANGED rx_out
    /\ UNCHANGED <<rx_sent, not_rx_vars>>

NextRx == receive_pack

SpecRx == InitRx /\ [][NextRx]_all_vars

\* C34: what receive_pack makes of a request body (the commands, the
\* capabilities, the bytes handed on as the pack) depends on the bytes only,
\* not on how the transport cuts them: it is what the body makes when it
\* arrives in one chunk.
C34_ChunkingIndependent ==
    rx_out # NotParsed =>
        rx_out = parse_receive_request(
                    SubSeq(rx_sent, 1, find(rx_sent, PACK)),
                    <<SubSeq(rx_sent, find(rx_sent, PACK) + 1, Len(rx_sent))>>)

(***************************************************************************)
(* The HTTP handlers and the CallBack channel:                             *)
(*   receive_pack                        src/src/http/receive.rs           *)
(*   upload_pack                         src/src/http/upload.rs            *)
(*   refs                                src/src/http/refs.rs              *)
(*   CallBack                            src/src/callback/mod.rs           *)
(* A message is "data" (a pkt-line), "flush" or "" (Bytes::new()).  The    *)
(* push and fetch handlers spawn the protocol task and return a response   *)
(* stream that owns the channel's receiver; the refs handler calls         *)
(* advertise_refs itself and then collects the channel.                    *)
(***************************************************************************)
not_st_vars ==
    <<vars, odb_vars, ref_call, up_vars, adv_vars, delta_vars, pkt_vars, tree_vars,
      repo_vars, http_vars, rx_vars,
      push_vars,
      trailer_vars>>

\* Most pkt-lines one protocol task sends before its closing frames.
MaxFrames == 3
\* Most refs of an advertised repository.
MaxAdvRefs == 16

\* CallBack::new(size) of the handlers.
CallBackSize(service) == IF service = "refs" THEN 20 ELSE 1024

Empty == ""
Data(n) == [i \in 1..n |-> "data"]

\* process_receive_pack to its end: "unpack ok", the status lines, the flush
\* and the empty message; an unknown pack version returns Ok before any
\* message; an error or a panic ends the task where it happens.
ReceiveRuns ==
    { Run("receive", Data(n) \o <<"flush", Empty>>, "Ok") : n \in 1..MaxFrames }
    \cup { Run("receive", <<>>, "Ok") }
    \cup { Run("receive", Data(n), "Err") : n \in 0..MaxFrames }
    \cup { Run("receive", Data(n), "panic") : n \in 1..MaxFrames }

\* upload_pack to its end: the negotiation and the pack, then the flush.
UploadRuns ==
    { Run("upload", Data(n) \o <<"flush">>, "Ok") : n \in 0..MaxFrames }
    \cup { Run("upload", Data(n), "Err") : n \in 0..MaxFrames }

\* advertise_refs of a repository of n refs: the service header, the
\* version, a flush, the HEAD line, the refs, a flush and the empty message;
\* head() or refs() may fail.
RefsRuns ==
    { Run("refs", Data(2) \o <<"flush">> \o Data(1 + n) \o <<"flush", Empty>>, "Ok") :
        n \in 0..MaxAdvRefs }
    \cup { Run("refs", Data(2) \o <<"flush">>, "Err"),
           Run("refs", Data(2) \o <<"flush">> \o Data(1), "Err") }

\* The Senders of a channel: the handler's `call_back` and, with a spawned
\* task, the clone in its Transaction.
Senders(service) == IF service = "refs" THEN {"handler"} ELSE {"handler", "task"}

InitStream ==
    /\ InitCore
    /\ TrailerIdle
    /\ PushIdle
    /\ RxIdle
    /\ DeltaIdle
    /\ PktIdle
    /\ TreeIdle
    /\ st_run \in ReceiveRuns \cup UploadRuns \cup RefsRuns
    /\ st_left = st_run.script
    /\ st_task = "running"
    /\ st_chan = <<>>
    /\ st_senders = Senders(st_run.service)
    /\ st_resp = IF st_run.service = "refs" THEN "advertising" ELSE "handler"
    /\ st_body = <<>>

\* What a push or fetch handler still holds of `call_back` once it has
\* returned the response: the stream took the receiver, the Sender stays
\* with the handler's frame and goes with it.
KeptByStream_Sender == {"handler"}

\* The Senders the response stream keeps alive: none, it uses
\* `call_back.receive` only.
KeptByStream == {}

\* The handler of a push or a fetch returns HttpResponse::Ok().streaming(stream);
\* the tasks it spawned on the local set start after that.
HandlerReturns ==
    /\ st_resp = "handler"
    /\ st_resp' = "streaming"
    /\ st_senders' = (st_senders \ {"handler"}) \cup KeptByStream
    /\ UNCHANGED <<st_run, st_left, st_task, st_chan, st_body, not_st_vars>>

\* CallBack::send: `self.callback.send(kind).await.ok()` waits for capacity
\* and gives the message up once the receiver is gone.
send ==
    /\ st_task = "running"
    /\ st_left # <<>>
    /\ st_resp # "handler"
    /\ IF st_resp = "ended"
       THEN UNCHANGED st_chan
       ELSE /\ Len(st_chan) < CallBackSize(st_run.service)
            /\ st_chan' = Append(st_chan, Head(st_left))
    /\ st_left' = Tail(st_left)
    /\ UNCHANGED <<st_run, st_task, st_senders, st_resp, st_body, not_st_vars>>

\* The sending side returns: a spawned task drops its Transaction and the
\* Sender in it; the refs handler goes on to its collecting loop, its
\* `call_back` still in scope.
Returns ==
    /\ st_task = "running"
    /\ st_left = <<>>
    /\ st_resp # "handler"
    /\ st_task' = st_run.outcome
    /\ IF st_run.service = "refs"
       THEN /\ st_resp' = "collecting"
            /\ UNCHANGED st_senders
       ELSE /\ st_senders' = st_senders \ {"task"}
            /\ UNCHANGED st_resp
    /\ UNCHANGED <<st_run, st_left, st_chan, st_body, not_st_vars>>

\* One turn of `while let Some(next) = receiver.recv().await`: recv() takes
\* the next message, or returns None when the channel is empty and no Sender
\* is left.  The push and the refs loops break on the empty message, the
\* fetch loop yields whatever comes.
recv ==
    /\ st_resp \in {"streaming", "collecting"}
    /\ IF st_chan # <<>>
       THEN /\ st_chan' = Tail(st_chan)
            /\ IF st_run.service # "upload" /\ Head(st_chan) = Empty
               THEN /\ st_resp' = "ended"
                    /\ UNCHANGED st_body
               ELSE /\ st_body' = Append(st_body, Head(st_chan))
                    /\ UNCHANGED st_resp
       ELSE /\ st_senders = {}
            /\ st_resp' = "ended"
            /\ UNCHANGED <<st_chan, st_body>>
    /\ UNCHANGED <<st_run, st_left, st_task, st_senders, not_st_vars>>

NextStream ==
    \/ HandlerReturns
    \/ send
    \/ Returns
    \/ recv

\* The runtime runs every task that can take a step and the client reads
\* the response.
SpecStream ==
    /\ InitStream
    /\ [][NextStream]_all_vars
    /\ WF_all_vars(HandlerReturns)
    /\ WF_all_vars(send)
    /\ WF_all_vars(Returns)
    /\ WF_all_vars(recv)

ResponseEnded == st_resp = "ended"
\* The sending side sent its final flush.
FinalFlushSent ==
    /\ st_task = "Ok"
    /\ \E i \in DOMAIN st_run.script : st_run.script[i] = "flush"

\* C35: the response stream of a git-receive-pack or git-upload-pack request
\* ends in every run, whether the protocol task returns Ok, returns an error
\* or panics; when the task sent its final flush, the response ends after
\* that flush.
C35_ResponseEnds ==
    /\ st_run.service \in {"receive", "upload"} => <>ResponseEnded
    /\ [](st_run.service \in {"receive", "upload"} /\ ResponseEnded /\ FinalFlushSent =>
             st_body # <<>> /\ st_body[Len(st_body)] = "flush")

\* C35 happens: a task returned an error without an empty message and the
\* response ended all the same.
C35_EndedAfterError ==
    /\ st_run.service = "receive"
    /\ st_task = "Err"
    /\ ResponseEnded
    /\ st_body # <<>>

\* The advertisement reached its end and the handler built the response.
RefsAdvertised == st_run.service = "refs" /\ st_run.outcome = "Ok"

\* C36: GET info/refs completes whatever the number of refs: advertise_refs,
\* which sends all its frames before the handler receives the first one,
\* never waits forever for room in the channel of capacity 20.
C36_RefsCompletes == RefsAdvertised => <>ResponseEnded

(***************************************************************************)
(* The refs store after any sequence of calls, under SpecRefs.             *)
(***************************************************************************)
\* The stored items of a name, and the items marked as head.
ItemsOf(name) == { i \in DOMAIN refs : refs[i].name = name }
HeadItems == { i \in DOMAIN refs : refs[i].is_head }

\* A call wrote value to name: create_refs returned Ok, or update_refs
\* returned Ok for a stored name.
Wrote(name, value) ==
    /\ \/ CreateRefs(name, value)
       \/ UpdateRefs(name, value) /\ RefExists(name)
    /\ result' = "Ok"

\* C37: after any sequence of create_refs, update_refs and del_refs, a
\* repeated create_refs of a stored name included, the store holds at most
\* one item per name and at most one item with is_head, and get_value_refs
\* of a name returns the value of the latest successful write to it.
C37_OneItemPerName ==
    /\ [](\A name \in RefNames : Cardinality(ItemsOf(name)) <= 1)
    /\ [](Cardinality(HeadItems) <= 1)
    /\ [][\A name \in RefNames, value \in RefValues :
              Wrote(name, value) => get_value_refs(refs', name) = value]_all_vars

(***************************************************************************)
(* Two pushes at the ref loop of process_receive_pack, on one repository:  *)
(*   src/src/transaction/receive/parse_receive_object.rs, lines 172-198    *)
(*   src/src/refs/mongo.rs, create_refs and update_refs                    *)
(* Each push has unpacked and committed its pack and holds one command.    *)
(***************************************************************************)
not_push_vars ==
    <<pc, ref_upload, capabilities, pack, pack_version, pack_size, pack_count,
      resolved_ofs, unresolved, resolved_count, odb, txn, idx, ok, result,
      lookup_failed, progress, events, odb_vars, ref_call, up_vars,
      adv_vars, delta_vars, pkt_vars, tree_vars, repo_vars, http_vars, rx_vars, st_vars,
      trailer_vars>>

\* The commit the second client pushes.
RivalCommit == <<"new", 11>>
PushTip(p) == IF p = "first" THEN NewCommit ELSE RivalCommit

\* The commands of a push: a create or an update of a branch, its old
\* value what the client last saw.
PushCommands(p) ==
    { Cmd(old, PushTip(p), name) :
        old \in {ZeroHash, LiveCommit, NewCommit}, name \in {Main, Dev} }

InitPush ==
    /\ InitCore
    /\ TrailerIdle
    /\ RxIdle
    /\ DeltaIdle
    /\ PktIdle
    /\ TreeIdle
    /\ StreamIdle
    /\ push_cmd \in [Pushers -> UNION { PushCommands(p) : p \in Pushers }]
    /\ \A p \in Pushers : push_cmd[p] \in PushCommands(p)
    /\ push_pc = [p \in Pushers |-> "UpdatingRefs"]
    /\ push_ok = [p \in Pushers |-> FALSE]

\* The ref loop of push p for its command: create_refs for a zero old
\* hash, update_refs otherwise, and 'ok <ref>' when the call returned Ok.
PushApplyRef(p) ==
    /\ push_pc[p] = "UpdatingRefs"
    /\ LET c == push_cmd[p]
       IN \/ /\ is_create(c)
             /\ refs' = create_refs(refs, c.ref_name, c.new)
             /\ push_ok' = [push_ok EXCEPT ![p] = TRUE]
          \/ /\ ~is_create(c)
             /\ is_update(c)
             /\ refs' = update_refs(refs, c.ref_name, c.new)
             /\ push_ok' = [push_ok EXCEPT ![p] = TRUE]
          \/ /\ UNCHANGED <<refs, push_ok>>     \* the backend call returns Err
    /\ push_pc' = [push_pc EXCEPT ![p] = "Reporting"]
    /\ UNCHANGED <<push_cmd, not_push_vars>>

\* The closing frames of push p.
PushFinish(p) ==
    /\ push_pc[p] = "Reporting"
    /\ push_pc' = [push_pc EXCEPT ![p] = "Done"]
    /\ UNCHANGED <<push_cmd, push_ok, refs, not_push_vars>>

NextPush ==
    \/ \E p \in Pushers : PushApplyRef(p)
    \/ \E p \in Pushers : PushFinish(p)

SpecPush == InitPush /\ [][NextPush]_all_vars

\* The ref's state is what command c expects: absent for a create, the
\* old value for an update.
Expected(c) ==
    IF is_create(c) THEN ~RefExists(c.ref_name)
    ELSE RefExists(c.ref_name) /\ get_value_refs(refs, c.ref_name) = c.old

\* Both pushes update one ref from one old value and are done.
RacingUpdates ==
    /\ \A p \in Pushers : push_pc[p] = "Done" /\ ~is_create(push_cmd[p])
    /\ push_cmd["first"].ref_name = push_cmd["second"].ref_name
    /\ push_cmd["first"].old = push_cmd["second"].old

\* C38: a create or update command is applied, and reported 'ok', only when
\* the ref's current state matches the command's old hash; of two pushes
\* that update one ref from one old value to different new values at most
\* one is reported 'ok'.
C38_OldValueChecked ==
    /\ [][\A p \in Pushers :
              PushApplyRef(p) /\ (refs' # refs \/ push_ok'[p]) => Expected(push_cmd[p])]_all_vars
    /\ [](RacingUpdates => ~(push_ok["first"] /\ push_ok["second"]))

(***************************************************************************)
(* receive-pack with any end of the pack: the steps of Spec, started with  *)
(* a stream whose bytes after the last object are any of AfterPack.        *)
(* process_receive_pack reads pack_size objects with ensure_buf and        *)
(* decompress_object_data and then goes on to resolve and commit; what     *)
(* follows the last object stays in `buffer` and in the stream.            *)
(***************************************************************************)
InitTrailer ==
    /\ InitCore
    /\ PushIdle
    /\ StreamIdle
    /\ RxIdle
    /\ DeltaIdle
    /\ PktIdle
    /\ TreeIdle
    /\ after_pack \in AfterPack

SpecTrailer == InitTrailer /\ [][Next]_vars

\* C39: receive-pack checks the pack trailer: a pack whose trailing hash is
\* missing or is not the hash of the preceding pack bytes is rejected,
\* nothing is committed to the ODB and no ref is updated.
C39_TrailerChecked ==
    HeaderRead /\ after_pack # "trailer" =>
        /\ odb = InitOdb
        /\ refs = InitRefs
        /\ ~(pc = "Done" /\ result = "Ok")

(***************************************************************************)
(* The commit of content the repository holds already, under SpecOdb.      *)
(***************************************************************************)
\* C40: commit() succeeds when a staged blob has the hash of a blob that is
\* durable already: it does not fail on that blob (a failure of the store
\* or of the database itself apart), and the durable blob stays as it was.
C40_RepushCommits ==
    /\ \A t \in Txns : sessions[t].err # "AlreadyExists"
    /\ Exists(MainPath(LiveBlob)) /\ object_store[MainPath(LiveBlob)] = DataOf(LiveBlob)

====
